---- MODULE Spec2Model ----
(***************************************************************************)
(* A model of the per-shard read / compaction engine of kvengine:           *)
(* memtables, the L0 tier, the per-CF levels, the snapshot read path        *)
(* (read.rs), the compaction planner and executors (compaction.rs) and      *)
(* the atomically published shard lists (shard.rs).                         *)
(***************************************************************************)
EXTENDS Integers, Sequences, FiniteSets, TLC

\* ------------------------------------------------------------------ bounds
\* keys are the one-byte strings <<1>> .. <<MaxKeyByte>>
MaxKeyByte == 2
\* versions written are 1 .. MaxVer
MaxVer == 2
\* number of write-batch entries the clients issue
MaxWrites == 3
\* managed_safe_ts values passed to update_managed_safe_ts are 1 .. MaxSafeTs
MaxSafeTs == 2
\* write-batch entries issued where a reader or a second worker runs as well
FewWrites == 2
\* size of the compaction worker pool where a pool is started
MaxCompactors == 2
\* number of entries in the level tree a shard is opened with
MaxIngest == 3
\* number of threads that call update_managed_safe_ts
MaxUpdaters == 3
\* number of shards run_compaction scans
MaxShards == 3
\* shard scores are 0 .. MaxShardScore, in units of 1.0
MaxShardScore == 3
\* the planner is given levels over the keys <<1>> .. <<MaxFillKey>>
MaxFillKey == 4
\* entries an executor is given in the id accounting, and their greatest size
MaxIdEntries == 49
MaxKvSize == 2
\* a level is loaded with up to MaxDeepExtra size units more than its capacity
MaxDeepExtra == 4
\* memtables in the list when add and remove are called in any order
MaxMemTables == 3
\* L0 blobs and SSTables listed in the snapshot of an ingested shard
MaxIngestL0 == 2
MaxIngestTables == 2
\* output tables of a compaction whose DFS creates are followed one by one
MaxFanOut == 3

\* ------------------------------------------------------- program constants
NUM_CFS == 3
WRITE_CF == 0
LOCK_CF == 1
EXTRA_CF == 2
\* max_levels of every CF (tests.rs new_test_options)
CF_LEVELS == 3
\* u64::MAX, the read version meaning "newest"
U64_MAX == 99
\* opts.base_size and opts.table_builder_options.max_table_size, in units of
\* one encoded entry
BaseSize == 1
MaxTableSize == 1
\* opts.num_compactors
NumCompactors == 1

CFS == 0 .. (NUM_CFS - 1)
Keys == { <<b>> : b \in 1 .. MaxKeyByte }
Versions == 1 .. MaxVer

\* ------------------------------------------------------------ byte strings
\* Ord on byte slices: lexicographic
RECURSIVE KeyCmp(_, _)
KeyCmp(a, b) ==
    IF a = <<>> THEN (IF b = <<>> THEN 0 ELSE -1)
    ELSE IF b = <<>> THEN 1
    ELSE IF Head(a) < Head(b) THEN -1
    ELSE IF Head(a) > Head(b) THEN 1
    ELSE KeyCmp(Tail(a), Tail(b))

KeyLess(a, b) == KeyCmp(a, b) < 0
KeyLeq(a, b) == KeyCmp(a, b) <= 0

\* ------------------------------------------------------------------ values
\* table::Value: `valid` is "not empty"; `del` the delete bit of meta;
\* um16 <=> user_meta is 16 bytes, then sts = user_meta[0..8] and
\* cts = user_meta[8..16]; pl <=> the payload is not empty.
EmptyValue ==
    [valid |-> FALSE, version |-> 0, del |-> FALSE, um16 |-> FALSE,
     sts |-> 0, cts |-> 0, pl |-> FALSE]

PutValue(ver) ==
    [valid |-> TRUE, version |-> ver, del |-> FALSE, um16 |-> FALSE,
     sts |-> 0, cts |-> 0, pl |-> TRUE]

\* a value whose 16-byte user_meta holds start_ts = commit_ts = ts and whose
\* payload is empty (a rollback record in WRITE_CF, an op-lock in EXTRA_CF)
MetaValue(ver, ts) ==
    [valid |-> TRUE, version |-> ver, del |-> FALSE, um16 |-> TRUE,
     sts |-> ts, cts |-> ts, pl |-> FALSE]

new_tombstone(ver) ==
    [valid |-> TRUE, version |-> ver, del |-> TRUE, um16 |-> FALSE,
     sts |-> 0, cts |-> 0, pl |-> FALSE]

is_valid(v) == v.valid
is_deleted(v) == v.del

\* an entry of a table: a key and its value
Entry(k, v) == [key |-> k, val |-> v]

\* --------------------------------------------------------------- sequences
RECURSIVE SetToSortedKeys(_)
SetToSortedKeys(S) ==
    IF S = {} THEN <<>>
    ELSE LET m == CHOOSE x \in S : \A y \in S : KeyLeq(x, y)
         IN  <<m>> \o SetToSortedKeys(S \ {m})

\* the versions of a set of values, newest first
RECURSIVE ValsDesc(_)
ValsDesc(S) ==
    IF S = {} THEN <<>>
    ELSE LET m == CHOOSE x \in S : \A y \in S : x.version >= y.version
         IN  <<m>> \o ValsDesc(S \ {m})

RECURSIVE Flatten(_)
Flatten(ss) == IF ss = <<>> THEN <<>> ELSE Head(ss) \o Flatten(Tail(ss))

SeqToSet(s) == { s[i] : i \in 1 .. Len(s) }

\* table::search(n, f): the least i in 0..n with f(i), by bisection; fs[i+1] = f(i)
RECURSIVE SearchFrom(_, _, _)
SearchFrom(fs, lo, hi) ==
    IF lo >= hi THEN lo
    ELSE LET mid == lo + ((hi - lo) \div 2)
         IN  IF ~fs[mid + 1] THEN SearchFrom(fs, mid + 1, hi)
             ELSE SearchFrom(fs, lo, mid)

search(fs) == SearchFrom(fs, 0, Len(fs))


\* ------------------------------------------------------------------ tables
\* A table is a set of entries; (key, version) is unique within a table.
\* The iterators of the table module see it as a sequence of version groups:
\* one group per key, keys ascending, the versions of a key newest first.
KeysOf(ents) == { e.key : e \in ents }
ValsOfKey(ents, k) == { e.val : e \in { x \in ents : x.key = k } }

\* TableIterator (forward) over one table
TableGroups(ents) ==
    LET ks == SetToSortedKeys(KeysOf(ents))
    IN  [i \in 1 .. Len(ks) |-> [key |-> ks[i], vals |-> ValsDesc(ValsOfKey(ents, ks[i]))]]

SSTable(id, ents) == [id |-> id, ents |-> ents]

\* SSTable::smallest / biggest / size (the builder records the first and the
\* last key added; one size unit per entry)
smallest(t) == CHOOSE k \in KeysOf(t.ents) : \A y \in KeysOf(t.ents) : KeyLeq(k, y)
biggest(t) == CHOOSE k \in KeysOf(t.ents) : \A y \in KeysOf(t.ents) : KeyLeq(y, k)
size(t) == Cardinality(t.ents)

\* the groups of a stream from the first group whose key is >= key (seek)
RECURSIVE SeekGroups(_, _)
SeekGroups(gs, key) ==
    IF gs = <<>> THEN <<>>
    ELSE IF KeyLeq(key, Head(gs).key) THEN gs
    ELSE SeekGroups(Tail(gs), key)

\* the first value of a group's versions with version <= version, or empty
RECURSIVE NextVersionUntil(_, _)
NextVersionUntil(vals, version) ==
    IF vals = <<>> THEN EmptyValue
    ELSE IF Head(vals).version > version THEN NextVersionUntil(Tail(vals), version)
    ELSE Head(vals)

\* a get that answers with the newest version of the key, whatever was asked
SSTableGetNewest(t, key, version) ==
    LET it == SeekGroups(TableGroups(t.ents), key)
    IN  IF it = <<>> \/ Head(it).key # key THEN EmptyValue
        ELSE Head(Head(it).vals)

\* SSTable::get(key, version, key_hash)
SSTableGet(t, key, version) ==
    LET it == SeekGroups(TableGroups(t.ents), key)
    IN  IF it = <<>> \/ Head(it).key # key THEN EmptyValue
        ELSE NextVersionUntil(Head(it).vals, version)

\* memtable::CFTable: one ordered multi-version map per CF
EmptyMemTable == [cf \in CFS |-> {}]
MemTableIsEmpty(m) == \A cf \in CFS : m[cf] = {}
MemTableGet(m, cf, key, version) == SSTableGet(SSTable(0, m[cf]), key, version)
MemTablePut(m, cf, e) == [m EXCEPT ![cf] = @ \cup {e}]

\* sstable::L0Table: one blob with a sub-table per CF; get_cf(cf) is None
\* when the blob holds nothing for the CF
L0Table(id, m) == [id |-> id, cfs |-> m]
L0HasCF(l0, cf) == l0.cfs[cf] # {}
L0GetCF(l0, cf) == SSTable(l0.id, l0.cfs[cf])
L0Size(l0) == Cardinality(UNION { { <<cf, e>> : e \in l0.cfs[cf] } : cf \in CFS })

\* ------------------------------------------------------------ LevelHandler
LevelHandler(level, tables, total_size) ==
    [level |-> level, tables |-> tables, total_size |-> total_size]

NewLevelHandler(level) == LevelHandler(level, <<>>, 0)

RECURSIVE SumSizes(_)
SumSizes(tbls) == IF tbls = <<>> THEN 0 ELSE size(Head(tbls)) + SumSizes(Tail(tbls))

\* LevelHandler::get_table: the first table whose biggest >= key
LevelGetTable(lh, key) ==
    search([i \in 1 .. Len(lh.tables) |-> KeyLeq(key, biggest(lh.tables[i]))])

\* LevelHandler::get
LevelGet(lh, key, version) ==
    LET idx == LevelGetTable(lh, key)
    IN  IF idx >= Len(lh.tables) THEN EmptyValue
        ELSE SSTableGet(lh.tables[idx + 1], key, version)

\* ShardCF::new
NewShardCF == [l \in 1 .. CF_LEVELS |-> NewLevelHandler(l)]

\* ------------------------------------------------------------ SplitContext
\* SplitContext::new(keys): keys.len() + 1 memtables when keys is not empty
NewSplitContext(keys) ==
    [split_keys |-> keys,
     mem_tbls |-> IF Len(keys) > 0 THEN [i \in 1 .. Len(keys) + 1 |-> EmptyMemTable]
                  ELSE <<>>]

\* SplitContext::get_spliting_index (0-based)
RECURSIVE SplitIndexFrom(_, _, _)
SplitIndexFrom(split_keys, key, i) ==
    IF i >= Len(split_keys) THEN i
    ELSE IF KeyLess(key, split_keys[i + 1]) THEN i
    ELSE SplitIndexFrom(split_keys, key, i + 1)

get_spliting_index(ctx, key) == SplitIndexFrom(ctx.split_keys, key, 0)

get_spliting_table(ctx, key) == ctx.mem_tbls[get_spliting_index(ctx, key) + 1]

\* SplitContext::write
SplitContextWrite(ctx, cf, e) ==
    [ctx EXCEPT !.mem_tbls[get_spliting_index(ctx, e.key) + 1] = MemTablePut(@, cf, e)]

\* -------------------------------------------------------------- SnapAccess
\* What a SnapAccess reads: the splitting context (split_keys empty = None),
\* the memtable list, the L0 list and the level list of every CF.
SnapView(splitting, mem_tbls, l0_tbls, scfs) ==
    [splitting |-> splitting, mem_tbls |-> mem_tbls, l0_tbls |-> l0_tbls, scfs |-> scfs]

\* the first valid value of MemTableGet over tbls[i..]
RECURSIVE GetInMemTbls(_, _, _, _)
GetInMemTbls(tbls, cf, key, version) ==
    IF tbls = <<>> THEN EmptyValue
    ELSE LET v == MemTableGet(Head(tbls), cf, key, version)
         IN  IF is_valid(v) THEN v ELSE GetInMemTbls(Tail(tbls), cf, key, version)

RECURSIVE GetInL0Tbls(_, _, _, _)
GetInL0Tbls(tbls, cf, key, version) ==
    IF tbls = <<>> THEN EmptyValue
    ELSE LET v == IF L0HasCF(Head(tbls), cf)
                  THEN SSTableGet(L0GetCF(Head(tbls), cf), key, version)
                  ELSE EmptyValue
         IN  IF is_valid(v) THEN v ELSE GetInL0Tbls(Tail(tbls), cf, key, version)

RECURSIVE GetInLevels(_, _, _)
GetInLevels(levels, key, version) ==
    IF levels = <<>> THEN EmptyValue
    ELSE LET v == LevelGet(Head(levels), key, version)
         IN  IF is_valid(v) THEN v ELSE GetInLevels(Tail(levels), key, version)

\* SnapAccess::get_value
get_value(snap, cf, key, version) ==
    LET vs == IF Len(snap.splitting.split_keys) > 0
              THEN MemTableGet(get_spliting_table(snap.splitting, key), cf, key, version)
              ELSE EmptyValue
        vm == GetInMemTbls(snap.mem_tbls, cf, key, version)
        v0 == GetInL0Tbls(snap.l0_tbls, cf, key, version)
    IN  IF is_valid(vs) THEN vs
        ELSE IF is_valid(vm) THEN vm
        ELSE IF is_valid(v0) THEN v0
        ELSE GetInLevels(snap.scfs[cf], key, version)

\* SnapAccess::get: version 0 reads the newest version
SnapGet(snap, cf, key, version) ==
    get_value(snap, cf, key, IF version = 0 THEN U64_MAX ELSE version)

\* --------------------------------------------------------------- iterators
\* ConcatIterator (forward) over the tables of one level, in list order
ConcatGroups(tables) ==
    Flatten([i \in 1 .. Len(tables) |-> TableGroups(tables[i].ents)])

\* The versions of one key held by several children, newest first; of two
\* children holding the same version the earlier child's value is kept.
RECURSIVE MergeVals(_)
MergeVals(vss) ==
    LET live == { i \in 1 .. Len(vss) : vss[i] # <<>> }
    IN  IF live = {} THEN <<>>
        ELSE LET top == CHOOSE i \in live : \A j \in live :
                            \/ Head(vss[i]).version > Head(vss[j]).version
                            \/ (Head(vss[i]).version = Head(vss[j]).version /\ i <= j)
                 v == Head(vss[top])
             IN  <<v>> \o MergeVals([i \in 1 .. Len(vss) |->
                            IF vss[i] # <<>> /\ Head(vss[i]).version = v.version
                            THEN Tail(vss[i]) ELSE vss[i]])

\* MergeIterator (forward): the ordered union of the children. The current
\* key is the smallest current key of the children; every child standing on
\* it contributes its versions, and next() moves each of them on.
RECURSIVE MergeGroups(_)
MergeGroups(cs) ==
    LET live == { i \in 1 .. Len(cs) : cs[i] # <<>> }
    IN  IF live = {} THEN <<>>
        ELSE LET first == CHOOSE i \in live : \A j \in live :
                              KeyLeq(Head(cs[i]).key, Head(cs[j]).key)
                 k == Head(cs[first]).key
                 on == { i \in live : Head(cs[i]).key = k }
                 vals == MergeVals([i \in 1 .. Len(cs) |->
                             IF i \in on THEN Head(cs[i]).vals ELSE <<>>])
             IN  <<[key |-> k, vals |-> vals]>>
                 \o MergeGroups([i \in 1 .. Len(cs) |->
                        IF i \in on THEN Tail(cs[i]) ELSE cs[i]])

\* the entries of a stream in the order next_all_version() visits them
RECURSIVE GroupsToEntries(_)
GroupsToEntries(gs) ==
    IF gs = <<>> THEN <<>>
    ELSE [i \in 1 .. Len(Head(gs).vals) |-> Entry(Head(gs).key, Head(gs).vals[i])]
         \o GroupsToEntries(Tail(gs))


\* SnapAccess::new_table_iterator: the children of the snapshot's merge
\* iterator for one CF, in the order they are pushed
new_table_iterator(snap, cf) ==
    LET sp == [i \in 1 .. Len(snap.splitting.mem_tbls) |->
                  TableGroups(snap.splitting.mem_tbls[i][cf])]
        ms == [i \in 1 .. Len(snap.mem_tbls) |-> TableGroups(snap.mem_tbls[i][cf])]
        HasCF(l0) == L0HasCF(l0, cf)
        l0s == SelectSeq(snap.l0_tbls, HasCF)
        ls == [i \in 1 .. Len(l0s) |-> TableGroups(l0s[i].cfs[cf])]
        NonEmpty(lh) == Len(lh.tables) # 0
        lvs == SelectSeq(snap.scfs[cf], NonEmpty)
        cs == [i \in 1 .. Len(lvs) |-> ConcatGroups(lvs[i].tables)]
    IN  sp \o ms \o ls \o cs

\* the inner iterator after seek(key) / rewind()
InnerSeek(snap, cf, key) ==
    LET cs == new_table_iterator(snap, cf)
    IN  MergeGroups([i \in 1 .. Len(cs) |-> SeekGroups(cs[i], key)])

InnerRewind(snap, cf) == MergeGroups(new_table_iterator(snap, cf))

\* The read Iterator over an inner stream m: pos.gi / pos.vi are the inner
\* iterator's group and version (1-based), pos.valid is Iterator::valid().
InvalidPos == [valid |-> FALSE, gi |-> 0, vi |-> 0]

\* the index of the first version <= ts among vals[vi..], or 0 (seek_to_version)
RECURSIVE SeekToVersion(_, _, _)
SeekToVersion(vals, vi, ts) ==
    IF vi > Len(vals) THEN 0
    ELSE IF vals[vi].version <= ts THEN vi
    ELSE SeekToVersion(vals, vi + 1, ts)

\* Iterator::parse_item with the inner iterator standing on (gi, vi)
RECURSIVE parse_item(_, _, _, _, _)
parse_item(m, gi, vi, read_ts, all_versions) ==
    IF gi > Len(m) THEN InvalidPos
    ELSE LET vals == m[gi].vals
             vj == IF vals[vi].version > read_ts
                   THEN SeekToVersion(vals, vi, read_ts) ELSE vi
         IN  IF vj = 0 THEN parse_item(m, gi + 1, 1, read_ts, all_versions)
             ELSE IF ~all_versions /\ is_deleted(vals[vj])
                  THEN parse_item(m, gi + 1, 1, read_ts, all_versions)
             ELSE [valid |-> TRUE, gi |-> gi, vi |-> vj]

\* Iterator::next
IterNext(m, pos, read_ts, all_versions) ==
    IF all_versions /\ pos.valid /\ pos.vi < Len(m[pos.gi].vals)
    THEN [valid |-> TRUE, gi |-> pos.gi, vi |-> pos.vi + 1]
    ELSE parse_item(m, pos.gi + 1, 1, read_ts, all_versions)

\* Iterator::key / item at a valid position
IterItem(m, pos) == Entry(m[pos.gi].key, m[pos.gi].vals[pos.vi])

\* everything the Iterator emits from pos on, calling next() until invalid
RECURSIVE IterCollect(_, _, _, _)
IterCollect(m, pos, read_ts, all_versions) ==
    IF ~pos.valid THEN <<>>
    ELSE <<IterItem(m, pos)>>
         \o IterCollect(m, IterNext(m, pos, read_ts, all_versions), read_ts, all_versions)

\* Iterator::seek(key) (forward) followed by next() to the end
IterFromSeek(snap, cf, key, read_ts, all_versions) ==
    LET m == InnerSeek(snap, cf, key)
    IN  IterCollect(m, parse_item(m, 1, 1, read_ts, all_versions), read_ts, all_versions)

\* Iterator::rewind() (forward) followed by next() to the end
IterFromRewind(snap, cf, read_ts, all_versions) ==
    LET m == InnerRewind(snap, cf)
    IN  IterCollect(m, parse_item(m, 1, 1, read_ts, all_versions), read_ts, all_versions)

\* --------------------------------------------------------- reverse iterators
\* A reverse table iterator visits the keys of its table in descending order
\* and stands on the newest version of each; a reverse ConcatIterator visits
\* the tables of its level from the last to the first.
Reverse(s) == [i \in 1 .. Len(s) |-> s[Len(s) + 1 - i]]

\* the groups of a reverse stream from the first group whose key is <= key
RECURSIVE SeekGroupsRev(_, _)
SeekGroupsRev(gs, key) ==
    IF gs = <<>> THEN <<>>
    ELSE IF KeyLeq(Head(gs).key, key) THEN gs
    ELSE SeekGroupsRev(Tail(gs), key)

\* MergeIterator (reverse): the current key is the greatest current key of
\* the children; of the children standing on it the one with the newest
\* version is the current position, and next() moves each of them on.
RECURSIVE MergeGroupsRev(_)
MergeGroupsRev(cs) ==
    LET live == { i \in 1 .. Len(cs) : cs[i] # <<>> }
    IN  IF live = {} THEN <<>>
        ELSE LET first == CHOOSE i \in live : \A j \in live :
                              KeyLeq(Head(cs[j]).key, Head(cs[i]).key)
                 k == Head(cs[first]).key
                 on == { i \in live : Head(cs[i]).key = k }
                 vals == MergeVals([i \in 1 .. Len(cs) |->
                             IF i \in on THEN <<Head(cs[i]).vals[1]>> ELSE <<>>])
             IN  <<[key |-> k, vals |-> <<vals[1]>>]>>
                 \o MergeGroupsRev([i \in 1 .. Len(cs) |->
                        IF i \in on THEN Tail(cs[i]) ELSE cs[i]])

\* the inner iterator of a reversed read Iterator after seek(key) / rewind()
InnerSeekRev(snap, cf, key) ==
    LET cs == new_table_iterator(snap, cf)
    IN  MergeGroupsRev([i \in 1 .. Len(cs) |-> SeekGroupsRev(Reverse(cs[i]), key)])

InnerRewindRev(snap, cf) ==
    LET cs == new_table_iterator(snap, cf)
    IN  MergeGroupsRev([i \in 1 .. Len(cs) |-> Reverse(cs[i])])

\* Iterator::rewind() (reversed) followed by next() to the end
IterFromRewindRev(snap, cf, read_ts, all_versions) ==
    LET m == InnerRewindRev(snap, cf)
    IN  IterCollect(m, parse_item(m, 1, 1, read_ts, all_versions), read_ts, all_versions)

\* Iterator::seek(key) (reversed) followed by next() to the end: an empty key
\* rewinds the inner iterator
IterFromSeekRev(snap, cf, key, read_ts, all_versions) ==
    LET m == IF Len(key) = 0 THEN InnerRewindRev(snap, cf) ELSE InnerSeekRev(snap, cf, key)
    IN  IterCollect(m, parse_item(m, 1, 1, read_ts, all_versions), read_ts, all_versions)

\* ------------------------------------------------------- compaction filter
\* a filter that reads the first eight bytes of user_meta in WRITE_CF too
FilterByStartTs(safe_ts, cf, val) ==
    IF cf = LOCK_CF THEN "Keep"
    ELSE IF val.um16 /\ val.sts < safe_ts
    THEN (IF cf = WRITE_CF /\ ~val.pl THEN "MarkTombStone"
          ELSE IF cf = WRITE_CF THEN "Keep" ELSE "Drop")
    ELSE "Keep"

\* filter(safe_ts, cf, val): the decision for the first version <= safe_ts
filter(safe_ts, cf, val) ==
    IF cf = WRITE_CF
    THEN IF val.um16 /\ val.cts < safe_ts /\ ~val.pl THEN "MarkTombStone" ELSE "Keep"
    ELSE IF cf = LOCK_CF THEN "Keep"
    ELSE IF val.um16 /\ val.sts < safe_ts THEN "Drop" ELSE "Keep"

\* ------------------------------------------------------- compaction request
\* the ids handed out beyond total_size / max_table_size
IdSlack == 16

CompactionRequest(cf, level, tops, bottoms, multi_cf_bottoms, overlap, safe_ts, start_id, end_id) ==
    [cf |-> cf, level |-> level, tops |-> tops, bottoms |-> bottoms,
     multi_cf_bottoms |-> multi_cf_bottoms, overlap |-> overlap, safe_ts |-> safe_ts,
     max_table_size |-> MaxTableSize, start_id |-> start_id, end_id |-> end_id]

\* pb::TableCreate together with the file written to the DFS under its id
TableCreate(id, cf, level, ents) == [id |-> id, cf |-> cf, level |-> level, ents |-> ents]

\* ---------------------------------------------------------- L0 executor
\* build_compact_l0_iterator: the L0 sub-tables of the CF in list order, then
\* one ConcatIterator over the bottoms when there are any; rewound
build_compact_l0_iterator(cf, top_tbls, bot_tbls) ==
    LET HasCF(l0) == L0HasCF(l0, cf)
        tops == SelectSeq(top_tbls, HasCF)
        its == [i \in 1 .. Len(tops) |-> TableGroups(tops[i].cfs[cf])]
    IN  GroupsToEntries(MergeGroups(
            IF Len(bot_tbls) > 0 THEN Append(its, ConcatGroups(bot_tbls)) ELSE its))

\* an executor that never sets skip_key
SkipKeyNever(key, val, safe_ts) == <<>>

\* skip_key after an entry that was not skipped: the key when the version is
\* <= safe_ts (the older versions of the key are discarded), else empty
SkipKeyAfter(key, val, safe_ts) == IF val.version <= safe_ts THEN key ELSE <<>>

\* The loop of CompactL0Helper::build_one. it: what the iterator has left;
\* built: the entries added to the builder (estimated_size = Len(built));
\* last_key is only ever extended, never truncated, inside the loop.
RECURSIVE BuildOneLoop(_, _, _, _, _, _)
BuildOneLoop(it, cf, safe_ts, built, last_key, skip_key) ==
    IF it = <<>> THEN [built |-> built, rest |-> it]
    ELSE LET key == Head(it).key
             val == Head(it).val
         IN  IF Len(skip_key) > 0 /\ key = skip_key
             THEN BuildOneLoop(Tail(it), cf, safe_ts, built, last_key, skip_key)
             ELSE IF key # last_key /\ Len(built) > MaxTableSize
             THEN [built |-> built, rest |-> it]
             ELSE LET lk == IF key # last_key THEN last_key \o key ELSE last_key
                      d == IF val.version <= safe_ts /\ ~is_deleted(val)
                           THEN filter(safe_ts, cf, val) ELSE "Keep"
                      sk == SkipKeyAfter(key, val, safe_ts)
                  IN  IF d = "Drop"
                      THEN BuildOneLoop(Tail(it), cf, safe_ts, built, lk, sk)
                      ELSE IF d = "MarkTombStone"
                      THEN BuildOneLoop(Tail(it), cf, safe_ts,
                               Append(built, Entry(key, new_tombstone(val.version))), lk, sk)
                      ELSE BuildOneLoop(Tail(it), cf, safe_ts,
                               Append(built, Entry(key, val)), lk, sk)

\* CompactL0Helper::build_one: last_key and skip_key start empty
build_one(it, cf, safe_ts) == BuildOneLoop(it, cf, safe_ts, <<>>, <<>>, <<>>)

\* the loop of compact_l0 for one CF: build_one until it returns no data;
\* the result is the sequence of entry sequences, one per table built
RECURSIVE CompactL0CF(_, _, _)
CompactL0CF(it, cf, safe_ts) ==
    LET r == build_one(it, cf, safe_ts)
    IN  IF r.built = <<>> THEN <<>>
        ELSE <<r.built>> \o CompactL0CF(r.rest, cf, safe_ts)

\* compact_l0: the TableCreates of all CFs, ids start_id, start_id + 1, ...
\* in CF order. No level is set on them (it stays 0).
RECURSIVE CompactL0From(_, _, _, _, _)
CompactL0From(cf, req, l0_tbls, mult_cf_bot_tbls, id) ==
    IF cf >= NUM_CFS THEN <<>>
    ELSE LET it == build_compact_l0_iterator(cf, l0_tbls, mult_cf_bot_tbls[cf + 1])
             outs == CompactL0CF(it, cf, req.safe_ts)
         IN  [i \in 1 .. Len(outs) |-> TableCreate(id + i - 1, cf, 0, SeqToSet(outs[i]))]
             \o CompactL0From(cf + 1, req, l0_tbls, mult_cf_bot_tbls, id + Len(outs))

compact_l0(req, l0_tbls, mult_cf_bot_tbls) ==
    CompactL0From(0, req, l0_tbls, mult_cf_bot_tbls, req.start_id)

\* ---------------------------------------------------------- LN executor
\* The inner loop of compact_tables for one output table. An iteration that
\* takes a `continue` leaves the iterator where it is and so repeats itself
\* for ever: the result is then hang = TRUE and the call never returns.
RECURSIVE CompactTablesInner(_, _, _, _, _)
CompactTablesInner(it, req, built, last_key, skip_key) ==
    IF it = <<>>
    THEN [hang |-> FALSE, built |-> built, rest |-> it, skip_key |-> skip_key]
    ELSE LET key == Head(it).key
             val == Head(it).val
             kv_size == 1
             hung == [hang |-> TRUE, built |-> built, rest |-> it, skip_key |-> skip_key]
         IN  IF Len(skip_key) > 0 /\ key = skip_key THEN hung
             ELSE IF key # last_key /\ Len(last_key) > 0
                     /\ Len(built) + kv_size > req.max_table_size
             THEN [hang |-> FALSE, built |-> built, rest |-> it, skip_key |-> <<>>]
             ELSE IF req.cf = LOCK_CF \/ val.version <= req.safe_ts
             THEN IF is_deleted(val)
                  THEN IF ~req.overlap
                       THEN [hung EXCEPT !.skip_key = key]
                       ELSE CompactTablesInner(Tail(it), req,
                                Append(built, Entry(key, val)), key, key)
                  ELSE LET d == filter(req.safe_ts, req.cf, val)
                       IN  IF d = "Keep"
                           THEN CompactTablesInner(Tail(it), req,
                                    Append(built, Entry(key, val)), key, key)
                           ELSE IF d = "Drop"
                           THEN [hung EXCEPT !.skip_key = key]
                           ELSE [hung EXCEPT !.skip_key = key,
                                     !.built = IF req.overlap
                                               THEN Append(built,
                                                        Entry(key, new_tombstone(val.version)))
                                               ELSE built]
             ELSE CompactTablesInner(Tail(it), req,
                      Append(built, Entry(key, val)), key, <<>>)

\* The outer loop of compact_tables: one output table per round, the id
\* alloc_id, level req.level + 1. hang is TRUE when some round never ends.
RECURSIVE CompactTablesOuter(_, _, _, _)
CompactTablesOuter(it, req, skip_key, alloc_id) ==
    IF it = <<>> THEN [hang |-> FALSE, creates |-> <<>>]
    ELSE LET r == CompactTablesInner(it, req, <<>>, <<>>, skip_key)
         IN  IF r.hang THEN [hang |-> TRUE, creates |-> <<>>]
             ELSE LET more == CompactTablesOuter(r.rest, req, r.skip_key, alloc_id + 1)
                  IN  [hang |-> more.hang,
                       creates |-> <<TableCreate(alloc_id, req.cf, req.level + 1,
                                                  SeqToSet(r.built))>> \o more.creates]

\* compact_tables(req): merge of ConcatIterator(tops) and ConcatIterator(bots)
compact_tables(req, top_tables, bot_tables) ==
    CompactTablesOuter(
        GroupsToEntries(MergeGroups(<<ConcatGroups(top_tables), ConcatGroups(bot_tables)>>)),
        req, <<>>, req.start_id)

\* ------------------------------------------------------------------ planner
\* get_tables_in_range(tables, start, end): 0-based (left, right)
\* a range search that leaves out the table that starts at the end key
TablesInRangeOpenEnd(tables, start, end) ==
    [left |-> search([i \in 1 .. Len(tables) |-> KeyLeq(start, biggest(tables[i]))]),
     right |-> search([i \in 1 .. Len(tables) |-> KeyLeq(end, smallest(tables[i]))])]

get_tables_in_range(tables, start, end) ==
    [left |-> search([i \in 1 .. Len(tables) |-> KeyLeq(start, biggest(tables[i]))]),
     right |-> search([i \in 1 .. Len(tables) |-> KeyLess(end, smallest(tables[i]))])]

\* get_key_range(tables): the smallest of the tables' smallest keys; biggest
\* is compared with itself and so stays that of tables[0]
RECURSIVE KeyRangeLeft(_, _, _)
KeyRangeLeft(tables, i, sm) ==
    IF i > Len(tables) THEN sm
    ELSE KeyRangeLeft(tables, i + 1,
             IF KeyLess(smallest(tables[i]), sm) THEN smallest(tables[i]) ELSE sm)

get_key_range(tables) ==
    [left |-> KeyRangeLeft(tables, 2, smallest(tables[1])),
     right |-> biggest(tables[1])]

\* sume_tbl_size(&tbls[from..to]) with 0-based bounds; the slice panics when
\* from > to
SliceOk(tbls, from, to) == from <= to /\ to <= Len(tbls)
sume_tbl_size(tbls, from, to) ==
    IF from >= to THEN 0 ELSE SumSizes(SubSeq(tbls, from + 1, to))

\* calc_ratio as the fraction <<numerator, denominator>>
calc_ratio(top_size, bot_size) ==
    IF bot_size = 0 THEN <<top_size, 1>> ELSE <<top_size, bot_size>>
RatioLess(r1, r2) == r1[1] * r2[2] < r2[1] * r1[2]

\* CompactDef::new
NewCompactDef(cf, level) ==
    [cf |-> cf, level |-> level, top |-> <<>>, bot |-> <<>>, has_overlap |-> FALSE,
     top_size |-> 0, top_left_idx |-> 0, top_right_idx |-> 0,
     bot_size |-> 0, bot_left_idx |-> 0, bot_right_idx |-> 0,
     candidate_ratio |-> <<0, 1>>, ok |-> FALSE, panic |-> FALSE]

\* fill_table, first loop: the table with the greatest top/bottom size ratio
RECURSIVE FillPick(_, _, _, _)
FillPick(cd, this, next, i) ==
    IF i >= Len(this) THEN cd
    ELSE LET tbl == this[i + 1]
             r == get_tables_in_range(next, smallest(tbl), biggest(tbl))
             bot_size == sume_tbl_size(next, r.left, r.right)
             ratio == calc_ratio(size(tbl), bot_size)
         IN  IF ~SliceOk(next, r.left, r.right) THEN [cd EXCEPT !.panic = TRUE]
             ELSE IF RatioLess(cd.candidate_ratio, ratio)
             THEN FillPick([cd EXCEPT !.candidate_ratio = ratio,
                                      !.top_left_idx = i, !.top_right_idx = i + 1,
                                      !.top_size = size(tbl),
                                      !.bot_left_idx = r.left, !.bot_right_idx = r.right,
                                      !.bot_size = bot_size], this, next, i + 1)
             ELSE FillPick(cd, this, next, i + 1)

\* fill_table, expansion to the left: i runs from top_left_idx - 1 down to 0
RECURSIVE FillLeft(_, _, _, _)
FillLeft(cd, this, next, i) ==
    IF i < 0 THEN cd
    ELSE LET t == this[i + 1]
             r == get_tables_in_range(next, smallest(t), biggest(t))
             new_top_size == size(t) + cd.top_size
             new_bot_size == sume_tbl_size(next, r.left, cd.bot_left_idx) + cd.bot_size
         IN  IF r.right < cd.bot_left_idx THEN cd
             ELSE IF ~SliceOk(next, r.left, cd.bot_left_idx) THEN [cd EXCEPT !.panic = TRUE]
             ELSE IF RatioLess(cd.candidate_ratio, calc_ratio(new_top_size, new_bot_size))
             THEN FillLeft([cd EXCEPT !.top_left_idx = @ - 1, !.bot_left_idx = r.left,
                                      !.top_size = new_top_size,
                                      !.bot_size = new_bot_size], this, next, i - 1)
             ELSE cd

\* fill_table, expansion to the right: i runs from top_right_idx to len - 1;
\* top_size is assigned new_bot_size
RECURSIVE FillRight(_, _, _, _)
FillRight(cd, this, next, i) ==
    IF i >= Len(this) THEN cd
    ELSE LET t == this[i + 1]
             r == get_tables_in_range(next, smallest(t), biggest(t))
             new_top_size == size(t) + cd.top_size
             new_bot_size == sume_tbl_size(next, cd.bot_right_idx, r.right) + cd.bot_size
         IN  IF r.left > cd.bot_right_idx THEN cd
             ELSE IF ~SliceOk(next, cd.bot_right_idx, r.right) THEN [cd EXCEPT !.panic = TRUE]
             ELSE IF RatioLess(cd.candidate_ratio, calc_ratio(new_top_size, new_bot_size))
             THEN FillRight([cd EXCEPT !.top_right_idx = @ + 1, !.bot_right_idx = r.right,
                                       !.top_size = new_bot_size,
                                       !.bot_size = new_bot_size], this, next, i + 1)
             ELSE cd

\* fill_table, the end: top and bot are the slices between the indices
FillSlices(c3, this, next) ==
    IF c3.panic THEN c3
    ELSE [c3 EXCEPT !.top = SubSeq(this, c3.top_left_idx + 1, c3.top_right_idx),
                    !.bot = SubSeq(next, c3.bot_left_idx + 1, c3.bot_right_idx),
                    !.ok = TRUE]

\* fill_table after the expansion to the left
FillAfterLeft(c2, this, next) ==
    IF c2.panic THEN c2 ELSE FillSlices(FillRight(c2, this, next, c2.top_right_idx), this, next)

\* fill_table after the pick: false is returned when no table was picked
FillAfterPick(c1, this, next) ==
    IF c1.panic \/ c1.top_left_idx = c1.top_right_idx THEN c1
    ELSE FillAfterLeft(FillLeft(c1, this, next, c1.top_left_idx - 1), this, next)

\* CompactDef::fill_table(this_level, next_level); ok is its return value
fill_table(cd0, this_level, next_level) ==
    IF Len(this_level.tables) = 0 THEN cd0
    ELSE FillAfterPick(FillPick(cd0, this_level.tables, next_level.tables, 0),
                       this_level.tables, next_level.tables)

\* CompactDef::move_down
move_down(cd) == cd.level > 0 /\ Len(cd.bot) = 0

\* ShardCF::set_has_overlapping: levels[lvl_idx] for lvl_idx in level+1 .. len-1
set_has_overlapping(scf, cd) ==
    IF move_down(cd) THEN cd
    ELSE LET kr == get_key_range(cd.top)
             Hit(lvl_idx) ==
                 LET r == get_tables_in_range(scf[lvl_idx + 1].tables, kr.left, kr.right)
                 IN  r.left < r.right
         IN  [cd EXCEPT !.has_overlap = \E lvl_idx \in (cd.level + 1) .. (Len(scf) - 1) :
                                            Hit(lvl_idx)]

\* -------------------------------------------------------- priority scoring
\* Scores are compared as integers: every score is multiplied by
\* ScoreScale * BaseSize, which is exact for the sizes met here.
RECURSIVE Pow10(_)
Pow10(n) == IF n <= 0 THEN 1 ELSE 10 * Pow10(n - 1)

ScoreScale == 50 * Pow10(CF_LEVELS - 1)

L0TotalSize(l0s) == IF l0s = <<>> THEN 0
                    ELSE LET S[i \in 0 .. Len(l0s)] ==
                                 IF i = 0 THEN 0 ELSE S[i - 1] + L0Size(l0s[i])
                         IN  S[Len(l0s)]

\* 0.7 * size / base_size + 0.3 * len / 5, scaled
L0Score(l0s) == (35 * L0TotalSize(l0s) + 3 * Len(l0s) * BaseSize) * Pow10(CF_LEVELS - 1)

\* total_size / (base_size * 10^(level - 1)), scaled
LevelScore(lh) == lh.total_size * 50 * Pow10(CF_LEVELS - lh.level)

CompactionPriority(cf, level, score) == [cf |-> cf, level |-> level, score |-> score]

\* the loop of get_compaction_priority over cf = c.. and the levels l.. of c
RECURSIVE PriorityFrom(_, _, _, _)
PriorityFrom(max_pri, scfs, c, l) ==
    IF c >= NUM_CFS THEN max_pri
    ELSE IF l > Len(scfs[c]) THEN PriorityFrom(max_pri, scfs, c + 1, 1)
    ELSE LET score == LevelScore(scfs[c][l])
         IN  PriorityFrom(IF max_pri.score < score
                          THEN CompactionPriority(c, scfs[c][l].level, score)
                          ELSE max_pri, scfs, c, l + 1)

\* a selection that leaves the L0 score out
PriorityOfLevelsOnly(l0s, scfs) ==
    PriorityFrom(CompactionPriority(-1, 0, 0), scfs, 0, 1)

get_compaction_priority(l0s, scfs) ==
    PriorityFrom(CompactionPriority(-1, 0, L0Score(l0s)), scfs, 0, 1)

\* pri.score > 1.0
ScoreAboveOne(pri) == pri.score > ScoreScale * BaseSize

\* ------------------------------------------------------ published lists
\* atomic_add_mem_table / atomic_remove_mem_table / atomic_add_l0_table /
\* atomic_remove_l0_tables: each builds a new list and publishes it
atomic_add_mem_table(tbls, mem_tbl) == <<mem_tbl>> \o tbls

\* a removal that takes the first table of the list
RemoveFirstMemTable(tbls) ==
    IF Len(tbls) <= 1 THEN tbls ELSE Tail(tbls)

atomic_remove_mem_table(tbls) ==
    IF Len(tbls) <= 1 THEN tbls ELSE SubSeq(tbls, 1, Len(tbls) - 1)

atomic_add_l0_table(tbls, l0_tbl) == <<l0_tbl>> \o tbls

atomic_remove_l0_tables(tbls, n) == SubSeq(tbls, 1, Len(tbls) - n)

\* LevelHandlerBuilder::build: tables sorted by smallest (a stable sort)
RECURSIVE SortBySmallest(_)
SortBySmallest(tbls) ==
    IF tbls = <<>> THEN <<>>
    ELSE LET i == CHOOSE i \in 1 .. Len(tbls) :
                      \A j \in 1 .. Len(tbls) :
                          \/ KeyLess(smallest(tbls[i]), smallest(tbls[j]))
                          \/ (smallest(tbls[i]) = smallest(tbls[j]) /\ i <= j)
         IN  <<tbls[i]>> \o SortBySmallest(
                 [j \in 1 .. Len(tbls) - 1 |-> IF j < i THEN tbls[j] ELSE tbls[j + 1]])

BuildLevel(level, tbls) ==
    LET sorted == SortBySmallest(tbls)
    IN  LevelHandler(level, sorted, SumSizes(sorted))

\* ===================================================================== state
VARIABLES
    split_ctx,        \* Shard.split_ctx
    mem_tbls,         \* Shard.mem_tbls, head first
    l0_tbls,          \* Shard.l0_tbls, newest first
    cfs,              \* Shard.cfs: for every CF its levels 1 .. CF_LEVELS
    compacting,       \* Shard.compacting
    managed_safe_ts,  \* Engine.managed_safe_ts
    next_id,          \* the id allocator's next free id
    num_compactors,   \* opts.num_compactors, the size of the worker pool
    worker,           \* per compaction worker: where it is in run_compaction
    listener,         \* change-sets handed to meta_change_listener, not yet applied
    flushing,         \* a flush has added its L0 table and not yet retired the memtable
    snap,             \* the reader's SnapAccess
    dangling,         \* tables released while the SnapAccess still refers to them
    writes,           \* number of entries written so far
    updaters,         \* per caller of update_managed_safe_ts: where it is in the loop
    filtered,         \* the last call of filter: its arguments and its decision
    iter,             \* the reader's SnapAccess.managed_ts, opts.cfs[*].managed and its last Iterator
    planner,          \* Engine.shards as run_compaction sees them, and each planner cycle
    alloc,            \* a request of the id accounting: the ids allocated for it and those consumed
    fanout,           \* an executor's DFS create tasks, its result channel and what it has received
    engine            \* Engine.shards and one call of Engine::ingest

vars == <<split_ctx, mem_tbls, l0_tbls, cfs, compacting, managed_safe_ts, next_id,
          num_compactors, worker, listener, flushing, snap, dangling, writes,
          updaters, filtered, iter, planner, alloc, fanout, engine>>

\* the values a client writes at a version: a put or a delete
WriteValues(ver) == {PutValue(ver), new_tombstone(ver)}

Workers == 1 .. num_compactors
IdleWorker == [pc |-> "idle", pri |-> CompactionPriority(-1, 0, 0),
               fault |-> "none", result |-> "none"]

\* the split keys handed to set_split_keys
SplitKeys == << <<MaxKeyByte>> >>

is_splitting == Len(split_ctx.split_keys) > 0

\* every entry of a CF held by a view
RECURSIVE EntsOfMems(_, _)
EntsOfMems(tbls, cf) ==
    IF tbls = <<>> THEN {} ELSE Head(tbls)[cf] \cup EntsOfMems(Tail(tbls), cf)

RECURSIVE EntsOfL0s(_, _)
EntsOfL0s(tbls, cf) ==
    IF tbls = <<>> THEN {} ELSE Head(tbls).cfs[cf] \cup EntsOfL0s(Tail(tbls), cf)

RECURSIVE EntsOfTables(_)
EntsOfTables(tbls) ==
    IF tbls = <<>> THEN {} ELSE Head(tbls).ents \cup EntsOfTables(Tail(tbls))

EntsOfLevels(levels) ==
    UNION { EntsOfTables(levels[l].tables) : l \in 1 .. Len(levels) }

ViewEntries(view, cf) ==
    EntsOfMems(view.splitting.mem_tbls, cf) \cup EntsOfMems(view.mem_tbls, cf)
    \cup EntsOfL0s(view.l0_tbls, cf) \cup EntsOfLevels(view.scfs[cf])

\* the view a SnapAccess created now would capture
NoSplit == NewSplitContext(<<>>)
CurView == SnapView(IF is_splitting THEN split_ctx ELSE NoSplit, mem_tbls, l0_tbls, cfs)

\* a reader that borrowed the shard's lists instead of cloning the handles
SnapAccessBorrowed(splitting, mems, l0s, scfs) ==
    [alive |-> TRUE, owned |-> FALSE, head_alias |-> TRUE,
     view |-> [splitting |-> splitting, mem_tbls |-> mems, l0_tbls |-> l0s, scfs |-> scfs]]

\* SnapAccess::new: every list handle is cloned, so the SnapAccess owns a
\* reference to each list (owned); head_alias: its first memtable is the
\* shard's writable memtable
SnapAccessNew(splitting, mems, l0s, scfs) ==
    [alive |-> TRUE, owned |-> TRUE, head_alias |-> TRUE,
     view |-> SnapView(splitting, mems, l0s, scfs)]

NoSnap == [alive |-> FALSE, owned |-> FALSE, head_alias |-> FALSE,
           view |-> SnapView(NoSplit, <<>>, <<>>, [cf \in CFS |-> <<>>])]

\* the tables a list refers to
L0Ids(tbls) == { tbls[i].id : i \in 1 .. Len(tbls) }
TableIds(tbls) == { tbls[i].id : i \in 1 .. Len(tbls) }
LevelIds(levels) == UNION { TableIds(levels[l].tables) : l \in 1 .. Len(levels) }
ViewRefs(view) ==
    { <<"mem", view.mem_tbls[i]>> : i \in 1 .. Len(view.mem_tbls) }
    \cup { <<"l0", id>> : id \in L0Ids(view.l0_tbls) }
    \cup { <<"sst", id>> : id \in UNION { LevelIds(view.scfs[cf]) : cf \in CFS } }

\* Publishing a list drops the shard's reference to the old one. A table no
\* longer referred to by the shard is released unless a SnapAccess owns a
\* reference to a list holding it.
Released(old_refs, new_refs) ==
    IF snap.alive /\ ~snap.owned
    THEN (old_refs \ new_refs) \cap ViewRefs(snap.view)
    ELSE {}

\* a thread that has not called update_managed_safe_ts
IdleUpdater == [pc |-> "idle", ts |-> 0, old |-> 0]
NoUpdaters == [t \in 1 .. MaxUpdaters |-> IdleUpdater]

\* opts.cfs[cf].managed as the tests configure it (WRITE_CF and EXTRA_CF)
TestManaged == [cf \in CFS |-> cf # LOCK_CF]

\* SnapAccess::new leaves managed_ts = 0; no Iterator has been created
NoIterator ==
    [managed |-> TestManaged, managed_ts |-> 0, made |-> FALSE, cf |-> WRITE_CF,
     read_ts |-> 0, items |-> <<>>]

\* run_compaction has not scanned; the shard map of the engine is not looked at
NoPlanner == [shards |-> <<>>, runs |-> <<>>]

\* no request has been built for the id accounting
NoAlloc ==
    [pc |-> "none", exe |-> "ln", max_table_size |-> MaxTableSize, kv_size |-> 0,
     left |-> <<>>, total_size |-> 0, start_id |-> 0, end_id |-> 0, made |-> <<>>]

\* no executor is building tables
NoFanOut ==
    [pc |-> "none", n |-> 0, fails |-> {}, cap |-> 0, launched |-> 0, tasks |-> <<>>,
     chan |-> <<>>, rx |-> FALSE, got |-> <<>>]

\* ingest has not been called; the shard map is empty
NoEngine == [pc |-> "none", id |-> 0, l0_creates |-> <<>>, table_creates |-> <<>>,
             bad |-> {}, shards |-> <<>>, result |-> "none"]

\* filter has not been called
NoFilterCall == [safe_ts |-> 0, cf |-> WRITE_CF, val |-> EmptyValue, decision |-> "none"]

Init ==
    /\ split_ctx = NewSplitContext(<<>>)
    /\ mem_tbls = <<EmptyMemTable>>
    /\ l0_tbls = <<>>
    /\ cfs = [cf \in CFS |-> NewShardCF]
    /\ compacting = FALSE
    /\ managed_safe_ts = 0
    /\ next_id = 1
    /\ num_compactors = NumCompactors
    /\ worker = [w \in 1 .. MaxCompactors |-> IdleWorker]
    /\ listener = <<>>
    /\ flushing = FALSE
    /\ snap = NoSnap
    /\ dangling = {}
    /\ writes = 0
    /\ updaters = NoUpdaters
    /\ filtered = NoFilterCall
    /\ iter = NoIterator
    /\ planner = NoPlanner
    /\ alloc = NoAlloc
    /\ fanout = NoFanOut
    /\ engine = NoEngine

\* ------------------------------------------------------------ client writes
\* what the reader's SnapAccess sees of a write: its first memtable while it
\* is the shard's writable memtable, its splitting tables while splitting
SnapAfterWrite(cf, e) ==
    IF ~snap.alive THEN snap
    ELSE IF is_splitting
    THEN IF Len(snap.view.splitting.split_keys) > 0
         THEN [snap EXCEPT !.view.splitting = SplitContextWrite(@, cf, e)]
         ELSE snap
    ELSE IF snap.head_alias
    THEN [snap EXCEPT !.view.mem_tbls[1] = MemTablePut(@, cf, e)]
    ELSE snap

\* Engine::write of one entry: to the splitting context while the shard is
\* splitting, else to the writable memtable. The version of a key grows.
Write(cf, key, val) ==
    /\ writes < MaxWrites
    /\ \A e \in ViewEntries(CurView, cf) : e.key = key => e.val.version < val.version
    /\ IF is_splitting
       THEN /\ split_ctx' = SplitContextWrite(split_ctx, cf, Entry(key, val))
            /\ UNCHANGED mem_tbls
       ELSE /\ mem_tbls' = [mem_tbls EXCEPT ![1] = MemTablePut(@, cf, Entry(key, val))]
            /\ UNCHANGED split_ctx
    /\ snap' = SnapAfterWrite(cf, Entry(key, val))
    /\ writes' = writes + 1
    /\ UNCHANGED <<l0_tbls, cfs, compacting, managed_safe_ts, next_id, num_compactors,
                   worker, listener, flushing, dangling,
                   updaters, filtered, iter, planner, alloc, fanout, engine>>

\* Shard::set_split_keys
SetSplitKeys ==
    /\ split_ctx' = IF ~is_splitting THEN NewSplitContext(SplitKeys) ELSE split_ctx
    /\ UNCHANGED <<mem_tbls, l0_tbls, cfs, compacting, managed_safe_ts, next_id,
                   num_compactors, worker, listener, flushing, snap, dangling, writes,
                   updaters, filtered, iter, planner, alloc, fanout, engine>>

\* --------------------------------------------------------- memtable / flush
MemRefs(tbls) == { <<"mem", tbls[i]>> : i \in 1 .. Len(tbls) }
L0Refs(tbls) == { <<"l0", id>> : id \in L0Ids(tbls) }
CfsRefs(scfs) == { <<"sst", id>> : id \in UNION { LevelIds(scfs[cf]) : cf \in CFS } }

\* switch of the writable memtable: atomic_add_mem_table(CFTable::new())
SwitchMemTable ==
    /\ ~MemTableIsEmpty(mem_tbls[1])
    /\ mem_tbls' = atomic_add_mem_table(mem_tbls, EmptyMemTable)
    /\ snap' = [snap EXCEPT !.head_alias = FALSE]
    /\ UNCHANGED <<split_ctx, l0_tbls, cfs, compacting, managed_safe_ts, next_id,
                   num_compactors, worker, listener, flushing, dangling, writes,
                   updaters, filtered, iter, planner, alloc, fanout, engine>>

\* flush, first half: the oldest memtable becomes an L0 table at the head
FlushAddL0 ==
    /\ ~flushing
    /\ Len(mem_tbls) > 1
    /\ l0_tbls' = atomic_add_l0_table(l0_tbls, L0Table(next_id, mem_tbls[Len(mem_tbls)]))
    /\ next_id' = next_id + 1
    /\ flushing' = TRUE
    /\ UNCHANGED <<split_ctx, mem_tbls, cfs, compacting, managed_safe_ts, num_compactors,
                   worker, listener, snap, dangling, writes,
                   updaters, filtered, iter, planner, alloc, fanout, engine>>

\* flush, second half: atomic_remove_mem_table
FlushRemoveMem ==
    /\ flushing
    /\ mem_tbls' = atomic_remove_mem_table(mem_tbls)
    /\ dangling' = dangling \cup Released(MemRefs(mem_tbls), MemRefs(mem_tbls'))
    /\ flushing' = FALSE
    /\ UNCHANGED <<split_ctx, l0_tbls, cfs, compacting, managed_safe_ts, next_id,
                   num_compactors, worker, listener, snap, writes,
                   updaters, filtered, iter, planner, alloc, fanout, engine>>

\* ------------------------------------------------------------------ reader
TakeSnap ==
    /\ ~snap.alive
    /\ snap' = SnapAccessNew(IF is_splitting THEN split_ctx ELSE NoSplit,
                             mem_tbls, l0_tbls, cfs)
    /\ iter' = [iter EXCEPT !.managed_ts = 0]
    /\ UNCHANGED <<split_ctx, mem_tbls, l0_tbls, cfs, compacting, managed_safe_ts,
                   next_id, num_compactors, worker, listener, flushing, dangling, writes,
                   updaters, filtered, planner, alloc, fanout, engine>>

DropSnap ==
    /\ snap.alive
    /\ snap' = NoSnap
    /\ dangling' = {}
    /\ UNCHANGED <<split_ctx, mem_tbls, l0_tbls, cfs, compacting, managed_safe_ts,
                   next_id, num_compactors, worker, listener, flushing, writes,
                   updaters, filtered, iter, planner, alloc, fanout, engine>>

\* ----------------------------------------------------------------- safe ts
\* Engine::update_managed_safe_ts: the CAS loop ends with max(old, ts)
update_managed_safe_ts(old, ts) == IF old < ts THEN ts ELSE old

UpdateManagedSafeTs(ts) ==
    /\ managed_safe_ts' = update_managed_safe_ts(managed_safe_ts, ts)
    /\ UNCHANGED <<split_ctx, mem_tbls, l0_tbls, cfs, compacting, next_id,
                   num_compactors, worker, listener, flushing, snap, dangling, writes,
                   updaters, filtered, iter, planner, alloc, fanout, engine>>

\* -------------------------------------------------------- compaction worker
Ids(tbls) == [i \in 1 .. Len(tbls) |-> tbls[i].id]

\* set_alloc_ids_for_request: the number of ids taken from the allocator
IdCount(total_size) == (total_size \div MaxTableSize) + IdSlack

\* pb::Compaction
Compaction(cf, level, top_deletes, bottom_deletes, table_creates) ==
    [cf |-> cf, level |-> level, top_deletes |-> top_deletes,
     bottom_deletes |-> bottom_deletes, table_creates |-> table_creates]

NoRequest == CompactionRequest(-1, 0, <<>>, <<>>, <<>>, FALSE, 0, 0, 0)
NoCompaction == Compaction(-1, 0, <<>>, <<>>, <<>>)

\* what one call of compact returns or does: result is "ok" (a change-set was
\* handed to the listener), "skipped" (Ok(()) without one), "err", "panic" or
\* "hang"; req is the request built, ids the number of ids allocated, fault
\* the step that failed ("none" when every step the attempt came to succeeded)
Attempt(result, req, comp, ids, fault) ==
    [result |-> result, req |-> req, comp |-> comp, ids |-> ids, fault |-> fault]

\* build_compact_l0_request
build_compact_l0_request(l0s, scfs, safe_ts, start_id) ==
    LET total_size == L0TotalSize(l0s)
                      + SumSizes(Flatten([c \in 1 .. NUM_CFS |-> scfs[c - 1][1].tables]))
    IN  CompactionRequest(-1, 0, Ids(l0s), <<>>,
                          [c \in 1 .. NUM_CFS |-> Ids(scfs[c - 1][1].tables)],
                          TRUE, safe_ts, start_id, start_id + IdCount(total_size))

\* build_compact_ln_request
build_compact_ln_request(cd, safe_ts, start_id) ==
    CompactionRequest(cd.cf, cd.level, Ids(cd.top), Ids(cd.bot), <<>>, cd.has_overlap,
                      safe_ts, start_id, start_id + IdCount(cd.top_size + cd.bot_size))

\* the L0 branch of Engine::compact with CompactionClient::compact. fault is
\* the step of the attempt that fails: a DFS read returns an error, a table
\* file does not open (unwrap panics), or a DFS create returns an error.
CompactL0(l0s, scfs, safe_ts, start_id, fault) ==
    LET req == build_compact_l0_request(l0s, scfs, safe_ts, start_id)
        ids == req.end_id - req.start_id
        creates == compact_l0(req, l0s, [c \in 1 .. NUM_CFS |-> scfs[c - 1][1].tables])
        comp == Compaction(-1, 0, req.tops, Flatten(req.multi_cf_bottoms), creates)
    IN  IF fault = "read" THEN Attempt("err", req, NoCompaction, ids, fault)
        ELSE IF fault = "open" THEN Attempt("panic", req, NoCompaction, ids, fault)
        ELSE IF fault = "create" /\ Len(creates) > 0
        THEN Attempt("err", req, NoCompaction, ids, fault)
        ELSE Attempt("ok", req, comp, ids, "none")

\* a move-down that leaves the tables at the level they are in
MoveDownSameLevel(req, cd) ==
    Compaction(req.cf, req.level, req.tops, <<>>,
               [i \in 1 .. Len(cd.top) |->
                   TableCreate(cd.top[i].id, req.cf, req.level, cd.top[i].ents)])

\* the move-down change-set built in Engine::compact
MoveDownCompaction(req, cd) ==
    Compaction(req.cf, req.level, req.tops, <<>>,
               [i \in 1 .. Len(cd.top) |->
                   TableCreate(cd.top[i].id, req.cf, req.level + 1, cd.top[i].ents)])

\* CompactionClient::compact for an LN request: out is what compact_tables
\* does with the tables once they are loaded
CompactLNOut(req, out, ids, fault) ==
    IF fault = "read" THEN Attempt("err", req, NoCompaction, ids, fault)
    ELSE IF fault = "open" THEN Attempt("panic", req, NoCompaction, ids, fault)
    ELSE IF out.hang THEN Attempt("hang", req, NoCompaction, ids, "none")
    ELSE IF fault = "create" /\ Len(out.creates) > 0
    THEN Attempt("err", req, NoCompaction, ids, fault)
    ELSE Attempt("ok", req,
                 Compaction(req.cf, req.level, req.tops, req.bottoms, out.creates),
                 ids, "none")

\* Engine::compact once the request is built: the move-down or the merge
CompactLNReq(cd, req, fault) ==
    IF Len(req.bottoms) = 0 /\ req.cf = WRITE_CF
    THEN Attempt("ok", req, MoveDownCompaction(req, cd), req.end_id - req.start_id, "none")
    ELSE CompactLNOut(req, compact_tables(req, cd.top, cd.bot),
                      req.end_id - req.start_id, fault)

\* Engine::compact once has_overlap is set
CompactLNDef(cd, safe_ts, start_id, fault) ==
    CompactLNReq(cd, build_compact_ln_request(cd, safe_ts, start_id), fault)

\* Engine::compact once fill_table has run: assert!(ok)
CompactLNFilled(cd0, scfs, safe_ts, start_id, fault) ==
    IF cd0.panic \/ ~cd0.ok THEN Attempt("panic", NoRequest, NoCompaction, 0, "none")
    ELSE CompactLNDef(set_has_overlapping(scfs[cd0.cf], cd0), safe_ts, start_id, fault)

\* the LN branch of Engine::compact with CompactionClient::compact
CompactLN(pri, scfs, safe_ts, start_id, fault) ==
    IF pri.level >= Len(scfs[pri.cf])
    THEN Attempt("panic", NoRequest, NoCompaction, 0, "none")
    ELSE CompactLNFilled(fill_table(NewCompactDef(pri.cf, pri.level),
                                    scfs[pri.cf][pri.level], scfs[pri.cf][pri.level + 1]),
                         scfs, safe_ts, start_id, fault)

\* Engine::compact(pri)
compact(pri, splitting, l0s, scfs, safe_ts, start_id, fault) ==
    IF splitting THEN Attempt("skipped", NoRequest, NoCompaction, 0, "none")
    ELSE IF pri.cf = -1 THEN CompactL0(l0s, scfs, safe_ts, start_id, fault)
    ELSE CompactLN(pri, scfs, safe_ts, start_id, fault)

Faults == {"none", "read", "open", "create"}

\* run_compaction, first half of a cycle: get_compaction_priorities over the
\* shard; the cycle goes on to compact when the shard is in the results
GetCompactionPriorities(w) ==
    /\ worker[w].pc = "idle"
    /\ LET pri == get_compaction_priority(l0_tbls, cfs)
       IN  worker' = IF ~compacting /\ ScoreAboveOne(pri)
                     THEN [worker EXCEPT ![w].pc = "picked", ![w].pri = pri]
                     ELSE worker
    /\ UNCHANGED <<split_ctx, mem_tbls, l0_tbls, cfs, compacting, managed_safe_ts,
                   next_id, num_compactors, listener, flushing, snap, dangling, writes,
                   updaters, filtered, iter, planner, alloc, fanout, engine>>

\* what run_compaction leaves behind once the compact call of worker w has
\* ended as attempt a: an error is logged and the loop goes on, a panic ends
\* the worker thread and a hang keeps it inside compact for ever
CompactEnds(w, a) ==
    /\ worker' = [worker EXCEPT ![w] =
                     [pc |-> IF a.result = "panic" THEN "panicked"
                             ELSE IF a.result = "hang" THEN "hung" ELSE "idle",
                      pri |-> worker[w].pri, fault |-> a.fault, result |-> a.result]]
    /\ next_id' = next_id + a.ids
    /\ listener' = IF a.result = "ok"
                   THEN Append(listener, [comp |-> a.comp, req |-> a.req])
                   ELSE listener

\* an executor that takes the L0 tables it has compacted off the shard's list
\* itself
CompactDropsInputs(w, fault) ==
    /\ worker[w].pc = "picked"
    /\ compacting' = TRUE
    /\ CompactEnds(w, compact(worker[w].pri, is_splitting, l0_tbls, cfs, managed_safe_ts,
                              next_id, fault))
    /\ l0_tbls' = IF worker'[w].result = "ok" /\ worker[w].pri.cf = -1 THEN <<>> ELSE l0_tbls
    /\ UNCHANGED <<split_ctx, mem_tbls, cfs, managed_safe_ts, num_compactors,
                   flushing, snap, dangling, writes, updaters, filtered, iter, planner, alloc,
                   fanout, engine>>

\* run_compaction, second half: the compacting flag is stored, then compact
\* runs
Compact(w, fault) ==
    /\ worker[w].pc = "picked"
    /\ compacting' = TRUE
    /\ CompactEnds(w, compact(worker[w].pri, is_splitting, l0_tbls, cfs, managed_safe_ts,
                              next_id, fault))
    /\ UNCHANGED <<split_ctx, mem_tbls, l0_tbls, cfs, managed_safe_ts, num_compactors,
                   flushing, snap, dangling, writes,
                   updaters, filtered, iter, planner, alloc, fanout, engine>>

\* ------------------------------------------------------ change-set applier
\* the tables of tbls whose id is not in ids
RemoveIds(tbls, ids) ==
    LET Stays(t) == t.id \notin SeqToSet(ids)
    IN  SelectSeq(tbls, Stays)

\* the tables a compaction created for one CF, opened from the DFS
CreatedTables(comp, cf) ==
    LET OfCF(tc) == tc.cf = cf
        tcs == SelectSeq(comp.table_creates, OfCF)
    IN  [i \in 1 .. Len(tcs) |-> SSTable(tcs[i].id, tcs[i].ents)]

\* The new level lists of one CF after a compaction is applied. An L0
\* compaction replaces the bottoms in level 1 of every CF; an LN compaction
\* of (cf, level) removes the tops from level and replaces the bottoms in
\* level + 1.
ApplyToCF(levels, comp, cf) ==
    IF comp.level = 0
    THEN [levels EXCEPT ![1] = BuildLevel(1, RemoveIds(@.tables, comp.bottom_deletes)
                                             \o CreatedTables(comp, cf))]
    ELSE IF comp.cf # cf THEN levels
    ELSE [levels EXCEPT
            ![comp.level] = BuildLevel(comp.level, RemoveIds(@.tables, comp.top_deletes)),
            ![comp.level + 1] =
                BuildLevel(comp.level + 1, RemoveIds(@.tables, comp.bottom_deletes)
                                           \o CreatedTables(comp, cf))]

ApplyToL0(l0s, comp) ==
    IF comp.level = 0 THEN atomic_remove_l0_tables(l0s, Len(comp.top_deletes)) ELSE l0s

\* atomic_remove_l0_tables panics when it is asked to remove more tables
\* than the list holds (old_l0_tbls.len() - n underflows)
ApplyPanics(l0s, comp) == comp.level = 0 /\ Len(comp.top_deletes) > Len(l0s)

\* The applier takes the oldest change-set from the listener, publishes the
\* new lists and clears the compacting flag. A panic ends the applier with
\* the change-set not applied.
ApplyChangeSet ==
    /\ Len(listener) > 0
    /\ ~ApplyPanics(l0_tbls, Head(listener).comp)
    /\ LET comp == Head(listener).comp
       IN  /\ l0_tbls' = ApplyToL0(l0_tbls, comp)
           /\ cfs' = [cf \in CFS |-> ApplyToCF(cfs[cf], comp, cf)]
    /\ listener' = Tail(listener)
    /\ compacting' = FALSE
    /\ dangling' = dangling \cup Released(L0Refs(l0_tbls) \cup CfsRefs(cfs),
                                          L0Refs(l0_tbls') \cup CfsRefs(cfs'))
    /\ UNCHANGED <<split_ctx, mem_tbls, managed_safe_ts, next_id, num_compactors, worker,
                   flushing, snap, writes,
                   updaters, filtered, iter, planner, alloc, fanout, engine>>

\* the steps of the clients, the flusher, the compaction workers and the applier
ClientNext ==
    \/ \E key \in Keys, ver \in Versions :
           \E val \in WriteValues(ver) : Write(WRITE_CF, key, val)
    \/ SwitchMemTable
    \/ FlushAddL0
    \/ FlushRemoveMem

ShardNext ==
    \/ ClientNext
    \/ \E w \in Workers : GetCompactionPriorities(w)
    \/ \E w \in Workers : \E fault \in Faults : Compact(w, fault)
    \/ ApplyChangeSet

DataNext == ShardNext \/ \E ts \in 1 .. MaxSafeTs : UpdateManagedSafeTs(ts)

Next == DataNext \/ SetSplitKeys

\* one shard, written by clients, flushed and compacted by one worker
Spec == Init /\ [][Next]_vars

\* the same with a reader that opens and drops a SnapAccess at any time
NextReader == (DataNext /\ writes' <= FewWrites) \/ TakeSnap \/ DropSnap

SpecReader == Init /\ [][NextReader]_vars

\* the same with a pool of MaxCompactors workers running run_compaction
InitSched ==
    /\ split_ctx = NewSplitContext(<<>>)
    /\ mem_tbls = <<EmptyMemTable>>
    /\ l0_tbls = <<>>
    /\ cfs = [cf \in CFS |-> NewShardCF]
    /\ compacting = FALSE
    /\ managed_safe_ts = 0
    /\ next_id = 1
    /\ num_compactors = MaxCompactors
    /\ worker = [w \in 1 .. MaxCompactors |-> IdleWorker]
    /\ listener = <<>>
    /\ flushing = FALSE
    /\ snap = NoSnap
    /\ dangling = {}
    /\ writes = 0
    /\ updaters = NoUpdaters
    /\ filtered = NoFilterCall
    /\ iter = NoIterator
    /\ planner = NoPlanner
    /\ alloc = NoAlloc
    /\ fanout = NoFanOut
    /\ engine = NoEngine

\* (no DFS fault is injected here)
NextSched ==
    \/ ClientNext /\ writes' <= FewWrites
    \/ \E w \in Workers : GetCompactionPriorities(w)
    \/ \E w \in Workers : Compact(w, "none")
    \/ ApplyChangeSet

SpecSched == InitSched /\ [][NextSched]_vars

\* =================================================================== claims
\* the versions a reader asks for: every written version and u64::MAX
ReadVersions == Versions \cup {U64_MAX}

\* the value of key with the greatest version <= v among ents, or empty
NewestAtMost(ents, key, v) ==
    LET vs == { e.val : e \in { x \in ents : x.key = key /\ x.val.version <= v } }
    IN  IF vs = {} THEN EmptyValue
        ELSE CHOOSE x \in vs : \A y \in vs : y.version <= x.version

\* some level of some CF holds two neighbouring tables that share a key or
\* are out of order
LevelOverlaps ==
    \E cf \in CFS : \E l \in 1 .. Len(cfs[cf]) :
        \E i \in 1 .. Len(cfs[cf][l].tables) - 1 :
            ~KeyLess(biggest(cfs[cf][l].tables[i]), smallest(cfs[cf][l].tables[i + 1]))

\* C9: in every reachable shard state the tables of each level >= 1 of each
\* CF are sorted by smallest and their [smallest, biggest] ranges are
\* pairwise disjoint: the biggest key of a table is below the smallest key of
\* the next one.
C9_LevelDisjointness == ~LevelOverlaps

\* C3: SnapAccess.get(cf, key, v) on the current view returns the value with
\* the greatest version <= v among all versions of key held by any source of
\* the view, and an empty value when no source holds a version <= v.
C3_NewestVersionWins ==
    \A cf \in CFS : \A key \in Keys : \A v \in ReadVersions :
        SnapGet(CurView, cf, key, v) = NewestAtMost(ViewEntries(CurView, cf), key, v)

\* the value of the first item of items with this key and a version <= v
RECURSIVE FirstMatch(_, _, _)
FirstMatch(items, key, v) ==
    IF items = <<>> THEN EmptyValue
    ELSE IF Head(items).key = key /\ Head(items).val.version <= v THEN Head(items).val
    ELSE FirstMatch(Tail(items), key, v)

\* C4: for every CF, key and version v, SnapAccess.get(cf, key, v) equals the
\* first item emitted by a forward iterator (every version, read_ts =
\* u64::MAX) positioned with seek(key) whose key equals key and whose version
\* is <= v, and is empty when the iterator emits no such item.
C4_GetEqualsIteration ==
    \A cf \in CFS : \A key \in Keys : \A v \in ReadVersions :
        SnapGet(CurView, cf, key, v)
            = FirstMatch(IterFromSeek(CurView, cf, key, U64_MAX, TRUE), key, v)

\* C5: with all_versions = false every item a read Iterator exposes is, for
\* its key, the newest version <= read_ts present in the merged sources and
\* is not a deleted value; a key with no version <= read_ts, or whose newest
\* version <= read_ts is a tombstone, is not exposed at all.
C5_MultiVersionVisibility ==
    \A cf \in CFS : \A read_ts \in ReadVersions :
        LET items == IterFromRewind(CurView, cf, read_ts, FALSE)
            ents == ViewEntries(CurView, cf)
        IN  /\ \A i \in 1 .. Len(items) :
                   /\ ~is_deleted(items[i].val)
                   /\ items[i].val = NewestAtMost(ents, items[i].key, read_ts)
            /\ \A key \in Keys :
                   LET n == NewestAtMost(ents, key, read_ts)
                   IN  (~is_valid(n) \/ is_deleted(n))
                           => \A i \in 1 .. Len(items) : items[i].key # key

\* what a reader sees of a value: a tombstone reads as "not found"
Visible(v) == IF is_valid(v) /\ ~is_deleted(v) THEN v ELSE EmptyValue

\* a change-set is waiting at the listener and the applier can install it
InstallPending == Len(listener) > 0 /\ ~ApplyPanics(l0_tbls, Head(listener).comp)

\* the view of the shard right after the applier has installed change-set
\* comp (the lists ApplyChangeSet publishes)
ViewAfter(comp) ==
    SnapView(IF is_splitting THEN split_ctx ELSE NoSplit, mem_tbls,
             ApplyToL0(l0_tbls, comp),
             [cf \in CFS |-> ApplyToCF(cfs[cf], comp, cf)])

InstalledView == ViewAfter(Head(listener).comp)

\* (key, v) is not legally dropped at safe_ts: v is above safe_ts, or v is the
\* newest version <= safe_ts of key among ents and the filter kept it
NotLegallyDropped(ents, cf, key, v, safe_ts) ==
    \/ v > safe_ts
    \/ LET n == NewestAtMost(ents, key, safe_ts)
       IN  /\ is_valid(n)
           /\ n.version = v
           /\ (is_deleted(n) \/ filter(safe_ts, cf, n) = "Keep")

\* C2: for every key k and read version V, get(k, V) on the shard after a
\* compaction (L0, LN or move-down) has been installed equals get(k, V)
\* before it, provided V > safe_ts or V is the newest version <= safe_ts of k
\* and the filter kept it.
C2_CompactionPreservesGet ==
    InstallPending =>
        \A cf \in CFS : \A key \in Keys : \A v \in ReadVersions :
            NotLegallyDropped(ViewEntries(CurView, cf), cf, key, v,
                              Head(listener).req.safe_ts)
                => Visible(SnapGet(InstalledView, cf, key, v))
                       = Visible(SnapGet(CurView, cf, key, v))

\* the step in which worker w runs compact
CompactStep(w) == worker[w].pc = "picked" /\ worker'[w].pc # "picked"

\* C6: if a DFS read, a table open or a DFS create fails during a compaction
\* attempt, compact() returns the error to its caller and no change-set of
\* the attempt reaches the meta-change listener, so the installed tables are
\* those before the attempt.
C6_AllOrNothing ==
    [][\A w \in Workers :
          (CompactStep(w) /\ worker'[w].fault # "none")
              => /\ worker'[w].result = "err"
                 /\ listener' = listener
                 /\ mem_tbls' = mem_tbls /\ l0_tbls' = l0_tbls /\ cfs' = cfs]_vars

\* the workers that have picked the shard and not yet finished compact
Picked == { w \in Workers : worker[w].pc = "picked" }

\* C7: in every interleaving of the compaction workers at most one worker is
\* between picking the shard and the end of its compact call: two workers
\* never pick the same shard in overlapping cycles.
C7_OneCompactionPerShard == Cardinality(Picked) <= 1

\* ------------------------------------------------- a shard with a level tree
\* The shard is opened with tables already in its tiers (ShardCFBuilder,
\* the L0 list newest first) and is then compacted; no client writes.
\* One CF holds the data. Every version of a key is absent or is a put, a
\* tombstone or a value with a 16-byte user_meta, and lies in tier 0 (the L0
\* table) .. CF_LEVELS; a newer version of a key never lies below an older one.
\* The tree has something to compact: its compaction priority is above 1.
ValueKinds == {"put", "del", "meta"}
Tiers == 0 .. CF_LEVELS
NoSlot == [kind |-> "none", tier |-> 0]
Slots == {NoSlot} \cup [kind : ValueKinds, tier : Tiers]

ValueOfKind(kind, ver) ==
    IF kind = "put" THEN PutValue(ver)
    ELSE IF kind = "del" THEN new_tombstone(ver)
    ELSE MetaValue(ver, ver)

\* the tier order of an LSM tree
TierOrdered(h) ==
    \A key \in Keys : \A v1, v2 \in Versions :
        (v1 < v2 /\ h[key][v1].kind # "none" /\ h[key][v2].kind # "none")
            => h[key][v2].tier <= h[key][v1].tier

\* a value with user_meta is given the version MetaVer only (start_ts =
\* commit_ts = MetaVer), the one the filter can act on below MaxSafeTs
MetaVer == 1

Histories ==
    { h \in [Keys -> [Versions -> Slots]] :
        /\ TierOrdered(h)
        /\ \A key \in Keys : \A v \in Versions : h[key][v].kind = "meta" => v = MetaVer
        /\ Cardinality({ kv \in Keys \X Versions : h[kv[1]][kv[2]].kind # "none" })
               <= MaxIngest }

\* the entries of a history that lie in a tier
TierEntries(h, tier) ==
    { Entry(kv[1], ValueOfKind(h[kv[1]][kv[2]].kind, kv[2])) :
        kv \in { x \in Keys \X Versions :
                    h[x[1]][x[2]].kind # "none" /\ h[x[1]][x[2]].tier = tier } }

\* the tables of a level: one table, or one table per key (ids 10 * level + i)
LoadedTables(ents, level, per_key) ==
    IF ents = {} THEN <<>>
    ELSE IF ~per_key THEN <<SSTable(10 * level, ents)>>
    ELSE LET ks == SetToSortedKeys(KeysOf(ents))
         IN  [i \in 1 .. Len(ks) |->
                 SSTable(10 * level + i, { e \in ents : e.key = ks[i] })]

LoadedL0(ents, cf) ==
    IF ents = {} THEN <<>>
    ELSE <<L0Table(1, [c \in CFS |-> IF c = cf THEN ents ELSE {}])>>

LoadedCF(h, per_key) ==
    [l \in 1 .. CF_LEVELS |-> BuildLevel(l, LoadedTables(TierEntries(h, l), l, per_key))]

FirstFreeId == 10 * (CF_LEVELS + 1)

InitLoaded ==
    \E cf0 \in CFS : \E h \in Histories : \E per_key \in BOOLEAN :
        /\ split_ctx = NewSplitContext(<<>>)
        /\ mem_tbls = <<EmptyMemTable>>
        /\ l0_tbls = LoadedL0(TierEntries(h, 0), cf0)
        /\ cfs = [cf \in CFS |-> IF cf = cf0 THEN LoadedCF(h, per_key) ELSE NewShardCF]
        /\ compacting = FALSE
        /\ managed_safe_ts \in 0 .. MaxSafeTs
        /\ next_id = FirstFreeId
        /\ num_compactors = NumCompactors
        /\ worker = [w \in 1 .. MaxCompactors |-> IdleWorker]
        /\ listener = <<>>
        /\ flushing = FALSE
        /\ snap = NoSnap
        /\ dangling = {}
        /\ writes = 0
        /\ updaters = NoUpdaters
        /\ filtered = NoFilterCall
        /\ iter = NoIterator
        /\ planner = NoPlanner
        /\ ScoreAboveOne(get_compaction_priority(l0_tbls, cfs))
        /\ alloc = NoAlloc
        /\ fanout = NoFanOut
        /\ engine = NoEngine

\* (no DFS fault is injected here)
NextLoaded ==
    \/ \E w \in Workers : GetCompactionPriorities(w)
    \/ \E w \in Workers : Compact(w, "none")
    \/ ApplyChangeSet

SpecLoaded == InitLoaded /\ [][NextLoaded]_vars

\* the tables of tbls whose id is in ids
WithIds(tbls, ids) ==
    LET Named(t) == t.id \in SeqToSet(ids)
    IN  SelectSeq(tbls, Named)

\* the entries of a CF a compaction request reads: its tops and its bottoms
InputEnts(req, cf) ==
    IF req.level = 0
    THEN EntsOfL0s(WithIds(l0_tbls, req.tops), cf)
         \cup EntsOfTables(WithIds(cfs[cf][1].tables, req.multi_cf_bottoms[cf + 1]))
    ELSE IF req.cf # cf THEN {}
    ELSE EntsOfTables(WithIds(cfs[cf][req.level].tables, req.tops))
         \cup EntsOfTables(WithIds(cfs[cf][req.level + 1].tables, req.bottoms))

\* the entries of a CF in the tables a change-set creates
OutputEnts(comp, cf) ==
    UNION { comp.table_creates[i].ents :
              i \in { j \in 1 .. Len(comp.table_creates) : comp.table_creates[j].cf = cf } }

\* the entries of key with a version <= ts
AtMost(ents, key, ts) == { e \in ents : e.key = key /\ e.val.version <= ts }

\* a move-down: the change-set re-creates its top tables under their own ids
IsMoveDown(cs) ==
    /\ cs.req.level >= 1 /\ cs.req.cf = WRITE_CF /\ Len(cs.req.bottoms) = 0

\* what is left of key at or below safe_ts in the output of change-set cs is
\* at most one entry: the newest version <= safe_ts of the inputs, as it was
\* or turned into a tombstone of that version
Deduped(cs, cf, key) ==
    LET below == AtMost(OutputEnts(cs.comp, cf), key, cs.req.safe_ts)
        n == NewestAtMost(InputEnts(cs.req, cf), key, cs.req.safe_ts)
    IN  /\ Cardinality(below) <= 1
        /\ \A e \in below : e.val \in {n, new_tombstone(n.version)}

PickedLN(w) == worker[w].pc = "picked" /\ worker[w].pri.cf >= 0 /\ ~is_splitting

\* what the compact call of worker w does when no DFS step fails
AttemptOf(w) ==
    compact(worker[w].pri, is_splitting, l0_tbls, cfs, managed_safe_ts, next_id, "none")

\* the attempt merges tables (it built a request and is not a move-down)
IsMerge(a) == a.req.cf >= 0 /\ ~IsMoveDown(a)

\* the first version <= safe_ts of key that the merge of attempt a meets
FirstBelowSafeTs(a, key) == NewestAtMost(InputEnts(a.req, a.req.cf), key, a.req.safe_ts)

\* C10: when the first version <= safe_ts of a key met by an LN merge is a
\* deletion tombstone, the compaction completes, the tombstone is in its
\* output at its original version if has_overlap is true and is in no output
\* table if has_overlap is false, and after the install get(key, v) finds
\* nothing for every v at which the tombstone was the newest version.
C10_TombstoneRetention ==
    \A w \in Workers :
        (PickedLN(w) /\ IsMerge(AttemptOf(w))) =>
            LET a == AttemptOf(w)
                cf == a.req.cf
            IN  \A key \in Keys :
                    LET n == FirstBelowSafeTs(a, key)
                    IN  (is_valid(n) /\ is_deleted(n)) =>
                            /\ a.result = "ok"
                            /\ Entry(key, n) \in OutputEnts(a.comp, cf) <=> a.req.overlap
                            /\ \A v \in ReadVersions :
                                   NewestAtMost(ViewEntries(CurView, cf), key, v) = n
                                       => Visible(SnapGet(ViewAfter(a.comp), cf, key, v))
                                              = EmptyValue

\* every get and the full forward iteration (all versions) through the
\* reader's SnapAccess
SnapReads ==
    [gets |-> [cf \in CFS |-> [key \in Keys |-> [v \in ReadVersions |->
                  SnapGet(snap.view, cf, key, v)]]],
     scans |-> [cf \in CFS |-> IterFromRewind(snap.view, cf, U64_MAX, TRUE)]]

\* a step of the shard other than a client write while the SnapAccess lives
ListStep == snap.alive /\ snap'.alive /\ writes' = writes

Rewrites(a) == a.req # NoRequest /\ ~IsMoveDown(a)

\* the CFs the request of an attempt covers
RequestCFs(req) == IF req.level = 0 THEN CFS ELSE {req.cf}

\* worker w has picked the shard and its compact call is about to run
PickedAny(w) == worker[w].pc = "picked" /\ ~is_splitting

\* C11: when the filter returns MarkTombStone for the first version <=
\* safe_ts of a key met by a compaction that rewrites its inputs, the
\* compaction completes and its output holds a deletion tombstone for the key
\* at the original version (and not the value) if has_overlap is true, and
\* holds the original value unchanged if has_overlap is false.
C11_MarkTombStone ==
    \A w \in Workers :
        (PickedAny(w) /\ Rewrites(AttemptOf(w))) =>
            LET a == AttemptOf(w)
            IN  \A cf \in RequestCFs(a.req) : \A key \in Keys :
                    LET n == NewestAtMost(InputEnts(a.req, cf), key, a.req.safe_ts)
                        out == OutputEnts(a.comp, cf)
                    IN  (/\ is_valid(n) /\ ~is_deleted(n)
                         /\ filter(a.req.safe_ts, cf, n) = "MarkTombStone") =>
                            /\ a.result = "ok"
                            /\ IF a.req.overlap
                               THEN /\ Entry(key, new_tombstone(n.version)) \in out
                                    /\ Entry(key, n) \notin out
                               ELSE Entry(key, n) \in out

\* ------------------------------------------------------------ filter alone
\* The values filter is called on: any delete bit, a user_meta of 16 bytes
\* (start_ts in bytes 0..8, commit_ts in bytes 8..16) or of another length,
\* a payload or none.
FilterValues ==
    [valid : {TRUE}, version : Versions, del : BOOLEAN, um16 : BOOLEAN,
     sts : 0 .. MaxSafeTs, cts : 0 .. MaxSafeTs, pl : BOOLEAN]

InitFilter ==
    /\ split_ctx = NewSplitContext(<<>>)
    /\ mem_tbls = <<EmptyMemTable>>
    /\ l0_tbls = <<>>
    /\ cfs = [cf \in CFS |-> NewShardCF]
    /\ compacting = FALSE
    /\ managed_safe_ts = 0
    /\ next_id = 1
    /\ num_compactors = NumCompactors
    /\ worker = [w \in 1 .. MaxCompactors |-> IdleWorker]
    /\ listener = <<>>
    /\ flushing = FALSE
    /\ snap = NoSnap
    /\ dangling = {}
    /\ writes = 0
    /\ updaters = NoUpdaters
    /\ filtered \in [safe_ts : 0 .. MaxSafeTs, cf : CFS, val : FilterValues,
                     decision : {"none"}]
    /\ iter = NoIterator
    /\ planner = NoPlanner
    /\ alloc = NoAlloc
    /\ fanout = NoFanOut
    /\ engine = NoEngine

\* one call of filter on the arguments drawn
CallFilter ==
    /\ filtered.decision = "none"
    /\ filtered' = [filtered EXCEPT
                      !.decision = filter(filtered.safe_ts, filtered.cf, filtered.val)]
    /\ UNCHANGED <<split_ctx, mem_tbls, l0_tbls, cfs, compacting, managed_safe_ts, next_id,
                   num_compactors, worker, listener, flushing, snap, dangling, writes,
                   updaters, iter, planner, alloc, fanout, engine>>

NextFilter == CallFilter

SpecFilter == InitFilter /\ [][NextFilter]_vars

\* C12: for every non-deleted value the decision of filter is Keep in
\* LOCK_CF; in WRITE_CF it is MarkTombStone exactly when user_meta is 16
\* bytes, the commit_ts of bytes 8..16 is below safe_ts and the payload is
\* empty, and Keep otherwise; in EXTRA_CF it is Drop exactly when user_meta
\* is 16 bytes and the start_ts of bytes 0..8 is below safe_ts, and Keep
\* otherwise.
C12_FilterDecision ==
    (filtered.decision # "none" /\ ~is_deleted(filtered.val)) =>
        LET v == filtered.val
            d == filtered.decision
        IN  /\ filtered.cf = LOCK_CF => d = "Keep"
            /\ filtered.cf = WRITE_CF =>
                   /\ d \in {"MarkTombStone", "Keep"}
                   /\ d = "MarkTombStone" <=> (v.um16 /\ v.cts < filtered.safe_ts /\ ~v.pl)
            /\ filtered.cf = EXTRA_CF =>
                   /\ d \in {"Drop", "Keep"}
                   /\ d = "Drop" <=> (v.um16 /\ v.sts < filtered.safe_ts)

\* filter has dropped an EXTRA_CF value whose start_ts is below safe_ts while
\* its commit_ts is not
C12_Witness ==
    /\ filtered.decision = "Drop" /\ ~is_deleted(filtered.val)
    /\ filtered.val.cts >= filtered.safe_ts

\* the tables of the picked level that a request names as its tops
TopTables(req) == WithIds(cfs[req.cf][req.level].tables, req.tops)

\* comp only relabels the top tables of req: it deletes them from the level
\* and creates each again under its own id, with its own contents (so its
\* smallest and biggest), one level down
OnlyRelabels(comp, req) ==
    LET tops == TopTables(req)
    IN  /\ comp.cf = req.cf /\ comp.level = req.level
        /\ comp.top_deletes = Ids(tops)
        /\ comp.bottom_deletes = <<>>
        /\ Len(comp.table_creates) = Len(tops)
        /\ \A i \in 1 .. Len(tops) :
               comp.table_creates[i]
                   = TableCreate(tops[i].id, req.cf, req.level + 1, tops[i].ents)

\* every table comp creates has an id allocated for req, none is an input
FreshTables(comp, req) ==
    \A i \in 1 .. Len(comp.table_creates) :
        /\ comp.table_creates[i].id >= req.start_id
        /\ comp.table_creates[i].id < req.end_id
        /\ comp.table_creates[i].id \notin SeqToSet(req.tops) \cup SeqToSet(req.bottoms)

\* the request is one for the move-down shortcut
ShortcutRequest(req) == req.level >= 1 /\ Len(req.bottoms) = 0 /\ req.cf = WRITE_CF

\* what the compact call of worker w does when DFS step fault fails
AttemptWith(w, fault) ==
    compact(worker[w].pri, is_splitting, l0_tbls, cfs, managed_safe_ts, next_id, fault)

\* C13: for a compaction of a level >= 1 whose bottom set is empty and whose
\* cf is WRITE_CF the change-set handed over deletes the top tables and
\* creates exactly one table per top table with the same id, smallest and
\* biggest at level + 1, and the attempt touches the DFS at no step (it ends
\* the same whichever DFS step would fail). For any other CF, or with
\* bottoms, the executor loads the tables from the DFS and every table of
\* its change-set is a new one.
C13_MoveDownShortcut ==
    /\ \A w \in Workers :
           (PickedLN(w) /\ AttemptOf(w).req # NoRequest) =>
               IF ShortcutRequest(AttemptOf(w).req)
               THEN \A fault \in Faults :
                        /\ AttemptWith(w, fault) = AttemptOf(w)
                        /\ AttemptOf(w).result = "ok"
                        /\ OnlyRelabels(AttemptOf(w).comp, AttemptOf(w).req)
               ELSE /\ AttemptWith(w, "read").result = "err"
                    /\ AttemptOf(w).result = "ok"
                           => FreshTables(AttemptOf(w).comp, AttemptOf(w).req)
    /\ (Len(listener) > 0 /\ Head(listener).req.level >= 1) =>
           IF ShortcutRequest(Head(listener).req)
           THEN OnlyRelabels(Head(listener).comp, Head(listener).req)
           ELSE FreshTables(Head(listener).comp, Head(listener).req)

\* a move-down change-set that relabels two top tables is at the listener
C13_Witness ==
    /\ Len(listener) > 0
    /\ ShortcutRequest(Head(listener).req)
    /\ Len(Head(listener).comp.table_creates) >= 2
    /\ OnlyRelabels(Head(listener).comp, Head(listener).req)

\* the full LN merge of the request of a move-down: compact_tables on the
\* same tops with no bottoms, no DFS step failing
FullMergeOf(req) ==
    CompactLNOut(req, compact_tables(req, TopTables(req), <<>>),
                 req.end_id - req.start_id, "none")

\* C14: for WRITE_CF tops with an empty bottom set, the full LN merge of the
\* same tops with bottoms = {} completes, and every get(k, V) on the shard
\* with the move-down change-set installed returns what it returns on the
\* shard with the output of that merge installed.
C14_MoveDownEquivalence ==
    \A w \in Workers :
        (PickedLN(w) /\ ShortcutRequest(AttemptOf(w).req)) =>
            /\ FullMergeOf(AttemptOf(w).req).result = "ok"
            /\ \A key \in Keys : \A v \in ReadVersions :
                   Visible(SnapGet(ViewAfter(AttemptOf(w).comp), WRITE_CF, key, v))
                       = Visible(SnapGet(ViewAfter(FullMergeOf(AttemptOf(w).req).comp),
                                         WRITE_CF, key, v))

\* a step of worker w inside run_compaction: it picks the shard or runs compact
WorkerStep(w) == worker'[w] # worker[w]

\* C15: no step of a compaction worker, from picking the shard to handing
\* over the change-set of an L0, LN or move-down compaction, changes the
\* shard's memtable list, its L0 list, the level lists of any CF or the
\* splitting context; the listener receives nothing, or exactly one
\* change-set when compact returns Ok with one.
C15_ExecutorLeavesView ==
    [][\A w \in Workers :
          WorkerStep(w) =>
              /\ mem_tbls' = mem_tbls /\ l0_tbls' = l0_tbls /\ cfs' = cfs
              /\ split_ctx' = split_ctx
              /\ \/ listener' = listener
                 \/ /\ worker'[w].result = "ok"
                    /\ Len(listener') = Len(listener) + 1
                    /\ SubSeq(listener', 1, Len(listener)) = listener]_vars

\* a change-set that creates tables is at the listener while the shard still
\* lists every input of the compaction and none of its outputs
C15_Witness ==
    /\ Len(listener) > 0
    /\ Len(Head(listener).comp.table_creates) > 0
    /\ Head(listener).req.level = 0
    /\ SeqToSet(Head(listener).req.tops) \subseteq L0Ids(l0_tbls)
    /\ \A i \in 1 .. Len(Head(listener).comp.table_creates) :
           <<"sst", Head(listener).comp.table_creates[i].id>> \notin CfsRefs(cfs)

\* the last compact call of worker w ended without a change-set: with an
\* error, or skipped because the shard is splitting
EndedWithout(w) == worker[w].pc = "idle" /\ worker[w].result \in {"err", "skipped"}

\* C16: whenever the compaction attempt of the one worker for the picked
\* shard has ended without a change-set, the shard is Idle again: its
\* compacting flag is clear, so that the next get_compaction_priorities that
\* finds its score above 1 picks it again.
C16_IdleAfterFailure ==
    \A w \in Workers : EndedWithout(w) => ~compacting

\* ------------------------------------------- update_managed_safe_ts, by step
Updaters == 1 .. MaxUpdaters

\* a store that does not compare
StoreAlways(current, expected) == TRUE

\* AtomicU64::compare_exchange(old, ts, ..).is_ok(): the stored value is the
\* expected one (compare_exchange does not fail spuriously)
compare_exchange_ok(current, expected) == current = expected

\* thread t calls update_managed_safe_ts(ts) and stands at the head of the loop
SafeTsCall(t, ts) ==
    /\ updaters[t].pc \in {"idle", "returned"}
    /\ updaters' = [updaters EXCEPT ![t] = [pc |-> "load", ts |-> ts, old |-> 0]]
    /\ UNCHANGED <<split_ctx, mem_tbls, l0_tbls, cfs, compacting, managed_safe_ts, next_id,
                   num_compactors, worker, listener, flushing, snap, dangling, writes,
                   filtered, iter, planner, alloc, fanout, engine>>

\* let old = load_u64(&self.managed_safe_ts)
SafeTsLoad(t) ==
    /\ updaters[t].pc = "load"
    /\ updaters' = [updaters EXCEPT ![t].pc = "cas", ![t].old = managed_safe_ts]
    /\ UNCHANGED <<split_ctx, mem_tbls, l0_tbls, cfs, compacting, managed_safe_ts, next_id,
                   num_compactors, worker, listener, flushing, snap, dangling, writes,
                   filtered, iter, planner, alloc, fanout, engine>>

\* if old < ts { if compare_exchange(old, ts).is_err() { continue } } break
SafeTsCas(t) ==
    /\ updaters[t].pc = "cas"
    /\ IF updaters[t].old < updaters[t].ts
       THEN IF compare_exchange_ok(managed_safe_ts, updaters[t].old)
            THEN /\ managed_safe_ts' = updaters[t].ts
                 /\ updaters' = [updaters EXCEPT ![t].pc = "returned"]
            ELSE /\ managed_safe_ts' = managed_safe_ts
                 /\ updaters' = [updaters EXCEPT ![t].pc = "load"]
       ELSE /\ managed_safe_ts' = managed_safe_ts
            /\ updaters' = [updaters EXCEPT ![t].pc = "returned"]
    /\ UNCHANGED <<split_ctx, mem_tbls, l0_tbls, cfs, compacting, next_id,
                   num_compactors, worker, listener, flushing, snap, dangling, writes,
                   filtered, iter, planner, alloc, fanout, engine>>

NextSafeTs ==
    \/ \E t \in Updaters : \E ts \in 1 .. MaxSafeTs : SafeTsCall(t, ts)
    \/ \E t \in Updaters : SafeTsLoad(t)
    \/ \E t \in Updaters : SafeTsCas(t)

\* every thread inside the loop goes on running
SpecSafeTs ==
    /\ Init /\ [][NextSafeTs]_vars
    /\ \A t \in Updaters : WF_vars(SafeTsLoad(t) \/ SafeTsCas(t))

\* thread t is inside update_managed_safe_ts
InUpdate(t) == updaters[t].pc \in {"load", "cas"}

\* C17: managed_safe_ts never decreases; once update_managed_safe_ts(x) has
\* returned, the stored value is >= x; the only value ever stored is the
\* argument of a call that is greater than the value it replaces (so with
\* all calls returned the stored value is the maximum of the value before
\* them and their arguments: at least every argument, and one of them or the
\* old value); and every call returns, in any interleaving.
C17_MonotoneSafeTs ==
    /\ [][managed_safe_ts' >= managed_safe_ts]_vars
    /\ [](\A t \in Updaters :
             updaters[t].pc = "returned" => managed_safe_ts >= updaters[t].ts)
    /\ [][managed_safe_ts' # managed_safe_ts =>
             \E t \in Updaters : /\ updaters[t].pc = "cas"
                                 /\ updaters'[t].pc = "returned"
                                 /\ managed_safe_ts' = updaters[t].ts
                                 /\ updaters[t].ts > managed_safe_ts]_vars
    /\ \A t \in Updaters : InUpdate(t) ~> (updaters[t].pc = "returned")

\* two calls overlap: one thread has returned from storing its argument while
\* another, which loaded the older value and has a greater argument, is about
\* to run a compare_exchange that fails
C17_Witness ==
    \E t, u \in Updaters :
        /\ t # u
        /\ updaters[u].pc = "returned" /\ managed_safe_ts = updaters[u].ts
        /\ updaters[t].pc = "cas"
        /\ updaters[t].old < managed_safe_ts
        /\ updaters[t].ts > managed_safe_ts

\* the newest version of key that any source of the shard holds for cf
NewestOf(cf, key) == NewestAtMost(ViewEntries(CurView, cf), key, U64_MAX)

\* the keys of cf whose newest version is a value (written and not deleted)
LiveKeys(cf) ==
    { key \in Keys : is_valid(NewestOf(cf, key)) /\ ~is_deleted(NewestOf(cf, key)) }

\* C18: while writes, memtable switches and flushes, compactions and the
\* splitting stage of the shard run in any interleaving, a fresh SnapAccess
\* on the shard returns for every written key of every CF the value written
\* last, and its forward iterator (rewind, then next to the end) yields every
\* written key exactly once, in ascending order, with that value.
C18_NoKeyLostOrDuplicated ==
    \A cf \in CFS :
        LET items == IterFromRewind(CurView, cf, U64_MAX, FALSE)
        IN  /\ \A key \in LiveKeys(cf) : SnapGet(CurView, cf, key, 0) = NewestOf(cf, key)
            /\ Len(items) = Cardinality(LiveKeys(cf))
            /\ \A i \in 1 .. Len(items) :
                   /\ items[i].key \in LiveKeys(cf)
                   /\ items[i].val = NewestOf(cf, items[i].key)
            /\ \A i \in 1 .. Len(items) - 1 : KeyLess(items[i].key, items[i + 1].key)

\* items is in forward order: keys ascending; two neighbours with the same
\* key only when every version is asked for, and then the later one is the
\* older version
ForwardOrdered(items, all_versions) ==
    \A i \in 1 .. Len(items) - 1 :
        /\ KeyLeq(items[i].key, items[i + 1].key)
        /\ items[i].key = items[i + 1].key =>
               (all_versions /\ items[i + 1].val.version < items[i].val.version)

\* C19: for every forward read Iterator of a SnapAccess on the shard, from
\* rewind or from seek to any key and through every following next, the keys
\* emitted are in ascending byte order; with all_versions the versions
\* emitted for one key are strictly decreasing, without it no key is emitted
\* twice.
C19_ForwardOrdering ==
    \A cf \in CFS : \A read_ts \in ReadVersions : \A all_versions \in BOOLEAN :
        /\ ForwardOrdered(IterFromRewind(CurView, cf, read_ts, all_versions), all_versions)
        /\ \A key \in Keys :
               ForwardOrdered(IterFromSeek(CurView, cf, key, read_ts, all_versions),
                              all_versions)

\* the items of a sequence whose key is <= key
UpTo(items, key) ==
    LET Below(e) == KeyLeq(e.key, key)
    IN  SelectSeq(items, Below)

\* C20: a reversed read Iterator of a SnapAccess on the shard (read_ts =
\* u64::MAX) emits keys in strictly descending order, every item it emits is
\* the newest version of its key in the shard, and seek(k) positions it on
\* the largest key <= k it would emit at all: from there it emits what a
\* rewound iterator emits from that key on.
C20_ReverseIteration ==
    \A cf \in CFS : \A all_versions \in BOOLEAN :
        LET items == IterFromRewindRev(CurView, cf, U64_MAX, all_versions)
        IN  /\ \A i \in 1 .. Len(items) - 1 : KeyLess(items[i + 1].key, items[i].key)
            /\ \A i \in 1 .. Len(items) : items[i].val = NewestOf(cf, items[i].key)
            /\ \A key \in Keys :
                   IterFromSeekRev(CurView, cf, key, U64_MAX, all_versions)
                       = UpTo(items, key)

\* the sources get_value consults for (cf, key), in its order: the splitting
\* memtable of the key, the memtables, the L0 tables, the levels of the CF;
\* each source as the set of entries it holds for the CF
SourcesOf(view, cf, key) ==
    LET sp == IF Len(view.splitting.split_keys) > 0
              THEN << get_spliting_table(view.splitting, key)[cf] >>
              ELSE <<>>
        ms == [i \in 1 .. Len(view.mem_tbls) |-> view.mem_tbls[i][cf]]
        ls == [i \in 1 .. Len(view.l0_tbls) |-> view.l0_tbls[i].cfs[cf]]
        lv == [l \in 1 .. Len(view.scfs[cf]) |-> EntsOfTables(view.scfs[cf][l].tables)]
    IN  sp \o ms \o ls \o lv

\* the newest version <= v of key in the first source that holds one
RECURSIVE FirstHolding(_, _, _)
FirstHolding(srcs, key, v) ==
    IF srcs = <<>> THEN EmptyValue
    ELSE LET n == NewestAtMost(Head(srcs), key, v)
         IN  IF is_valid(n) THEN n ELSE FirstHolding(Tail(srcs), key, v)

\* C21: point get walks the splitting memtable of the key, the memtables
\* newest first, the L0 tables newest first and then the levels of the CF,
\* and returns the value of the first source that holds a version of the key
\* <= the requested version; when no source holds one it returns an empty
\* value.
C21_PointGetOrder ==
    \A cf \in CFS : \A key \in Keys : \A v \in ReadVersions :
        get_value(CurView, cf, key, v) = FirstHolding(SourcesOf(CurView, cf, key), key, v)

\* ------------------------------------------------- the read-ts of an Iterator
\* a selection that looks at the CF's managed flag only
ReadTsManagedOnly(managed, managed_ts) == IF managed THEN managed_ts ELSE U64_MAX

\* SnapAccess::new_iterator: the read_ts it gives the Iterator
new_iterator(managed, managed_ts) ==
    IF managed /\ managed_ts # 0 THEN managed_ts ELSE U64_MAX

\* the shard is constructed with some managed flag per CF
InitReadTs ==
    /\ split_ctx = NewSplitContext(<<>>)
    /\ mem_tbls = <<EmptyMemTable>>
    /\ l0_tbls = <<>>
    /\ cfs = [cf \in CFS |-> NewShardCF]
    /\ compacting = FALSE
    /\ managed_safe_ts = 0
    /\ next_id = 1
    /\ num_compactors = NumCompactors
    /\ worker = [w \in 1 .. MaxCompactors |-> IdleWorker]
    /\ listener = <<>>
    /\ flushing = FALSE
    /\ snap = NoSnap
    /\ dangling = {}
    /\ writes = 0
    /\ updaters = NoUpdaters
    /\ filtered = NoFilterCall
    /\ iter \in { [NoIterator EXCEPT !.managed = m] : m \in [CFS -> BOOLEAN] }
    /\ planner = NoPlanner
    /\ alloc = NoAlloc
    /\ fanout = NoFanOut
    /\ engine = NoEngine

\* SnapAccess::set_managed_ts
SetManagedTs(ts) ==
    /\ snap.alive
    /\ iter' = [iter EXCEPT !.managed_ts = ts]
    /\ UNCHANGED <<split_ctx, mem_tbls, l0_tbls, cfs, compacting, managed_safe_ts, next_id,
                   num_compactors, worker, listener, flushing, snap, dangling, writes,
                   updaters, filtered, planner, alloc, fanout, engine>>

\* SnapAccess::new_iterator(cf, false, false), rewound and read to its end
NewIterator(cf) ==
    /\ snap.alive
    /\ LET read_ts == new_iterator(iter.managed[cf], iter.managed_ts)
       IN  iter' = [iter EXCEPT !.made = TRUE, !.cf = cf, !.read_ts = read_ts,
                                !.items = IterFromRewind(snap.view, cf, read_ts, FALSE)]
    /\ UNCHANGED <<split_ctx, mem_tbls, l0_tbls, cfs, compacting, managed_safe_ts, next_id,
                   num_compactors, worker, listener, flushing, snap, dangling, writes,
                   updaters, filtered, planner, alloc, fanout, engine>>

NextReadTs ==
    \/ \E cf \in CFS : \E key \in Keys : \E ver \in Versions : \E val \in WriteValues(ver) :
           Write(cf, key, val) /\ writes' <= FewWrites
    \/ TakeSnap
    \/ DropSnap
    \/ \E ts \in 0 .. MaxVer : SetManagedTs(ts)
    \/ \E cf \in CFS : NewIterator(cf)

SpecReadTs == InitReadTs /\ [][NextReadTs]_vars

\* a step that creates an Iterator
IterStep == iter' # iter /\ iter'.made /\ iter'.managed_ts = iter.managed_ts

\* the items of a stream with this key
ItemsOf(items, key) ==
    LET HasKey(e) == e.key = key
    IN  SelectSeq(items, HasKey)

\* C22: an Iterator created by new_iterator(cf, ..) has read_ts = managed_ts
\* when the CF is configured managed and the SnapAccess's managed_ts is not
\* zero, and read_ts = u64::MAX in every other case; with managed_ts = 0 it
\* exposes of every key the newest version the SnapAccess holds, whatever the
\* CF's managed flag.
C22_ReadTsSelection ==
    [][IterStep =>
          /\ iter'.read_ts = IF iter.managed[iter'.cf] /\ iter.managed_ts # 0
                             THEN iter.managed_ts
                             ELSE U64_MAX
          /\ iter.managed_ts = 0 =>
                 \A key \in Keys :
                     LET n == NewestAtMost(ViewEntries(snap.view, iter'.cf), key, U64_MAX)
                     IN  ItemsOf(iter'.items, key)
                             = IF is_valid(n) /\ ~is_deleted(n) THEN <<Entry(key, n)>>
                               ELSE <<>>]_vars

C22_Witness ==
    /\ iter.made
    /\ iter.managed[iter.cf]
    /\ iter.managed_ts = 0
    /\ iter.read_ts = U64_MAX
    /\ \E i \in 1 .. Len(iter.items) : iter.items[i].val.version = MaxVer

\* the scores get_compaction_priority compares: the L0 score and one score
\* per (cf, level)
LevelScores == { LevelScore(cfs[cf][l]) : cf \in CFS, l \in 1 .. CF_LEVELS }
MaxScore ==
    CHOOSE x \in LevelScores \cup {L0Score(l0_tbls)} :
        \A y \in LevelScores \cup {L0Score(l0_tbls)} : y <= x

\* C23: get_compaction_priority returns the maximum of the L0 score
\* 0.7 * (l0_total_size / base_size) + 0.3 * (l0_count / 5) and the scores
\* total_size(level) / (base_size * 10^(level - 1)) of every (CF, level >= 1);
\* the result has cf = -1 exactly when the L0 score is the maximum, and
\* otherwise the (cf, level) of a level whose score is the greatest.
C23_PrioritySelection ==
    LET pri == get_compaction_priority(l0_tbls, cfs)
    IN  /\ pri.score = MaxScore
        /\ pri.cf = -1 <=> L0Score(l0_tbls) = MaxScore
        /\ pri.cf # -1 =>
               /\ pri.cf \in CFS
               /\ pri.level \in 1 .. CF_LEVELS
               /\ cfs[pri.cf][pri.level].level = pri.level
               /\ LevelScore(cfs[pri.cf][pri.level]) = MaxScore

\* a worker has picked L0 (cf = -1) while some level holds tables
C23_Witness ==
    /\ \E w \in Workers : worker[w].pc = "picked" /\ worker[w].pri.cf = -1
    /\ Len(l0_tbls) > 0
    /\ \E cf \in CFS : \E l \in 1 .. CF_LEVELS : cfs[cf][l].total_size > 0

\* ------------------------------------------------ run_compaction over shards
\* Here a shard is what the planner reads of it: is_active(), the compacting
\* flag and the score of its get_compaction_priority, in units of 1.0.
ShardIds == 1 .. MaxShards

\* run_compaction of one worker: results of the last scan, the index of the
\* for loop and the shards compacted in this cycle
IdleRun == [pc |-> "scan", results |-> <<>>, i |-> 0, done |-> <<>>]

\* Engine::get_compaction_priorities: the shards that are active, not
\* compacting and score above 1.0, sorted by score, greatest first (the map
\* is iterated in any order, so equal scores come in any order)
get_compaction_priorities(shards) ==
    LET E == { s \in DOMAIN shards :
                 shards[s].active /\ ~shards[s].compacting /\ shards[s].score > 1 }
    IN  { r \in [1 .. Cardinality(E) -> E] :
            /\ \A i, j \in DOMAIN r : i < j => r[i] # r[j]
            /\ \A i, j \in DOMAIN r : i < j => shards[r[i]].score >= shards[r[j]].score }

InitPlanner ==
    /\ split_ctx = NewSplitContext(<<>>)
    /\ mem_tbls = <<EmptyMemTable>>
    /\ l0_tbls = <<>>
    /\ cfs = [cf \in CFS |-> NewShardCF]
    /\ compacting = FALSE
    /\ managed_safe_ts = 0
    /\ next_id = 1
    /\ num_compactors = MaxCompactors
    /\ worker = [w \in 1 .. MaxCompactors |-> IdleWorker]
    /\ listener = <<>>
    /\ flushing = FALSE
    /\ snap = NoSnap
    /\ dangling = {}
    /\ writes = 0
    /\ updaters = NoUpdaters
    /\ filtered = NoFilterCall
    /\ iter = NoIterator
    /\ \E sh \in [ShardIds -> [active : BOOLEAN, compacting : {FALSE},
                               score : 0 .. MaxShardScore]] :
           planner = [shards |-> sh, runs |-> [w \in 1 .. MaxCompactors |-> IdleRun]]
    /\ alloc = NoAlloc
    /\ fanout = NoFanOut
    /\ engine = NoEngine

\* the head of the loop of run_compaction: get_compaction_priorities(&mut results)
PlannerScan(w) ==
    /\ planner.runs[w].pc = "scan"
    /\ \E r \in get_compaction_priorities(planner.shards) :
           planner' = [planner EXCEPT
                         !.runs[w] = [pc |-> IF Len(r) = 0 THEN "scan" ELSE "compact",
                                      results |-> [i \in DOMAIN r |->
                                                     [shard_id |-> r[i],
                                                      score |-> planner.shards[r[i]].score]],
                                      i |-> 0, done |-> <<>>]]
    /\ UNCHANGED <<split_ctx, mem_tbls, l0_tbls, cfs, compacting, managed_safe_ts, next_id,
                   num_compactors, worker, listener, flushing, snap, dangling, writes,
                   updaters, filtered, iter, alloc, fanout, engine>>

\* one round of `for i in 0..cnt`: store compacting = true and compact(&pri);
\* compact returns at once for a passive shard, otherwise the shard is
\* compacted and its score does not grow
PlannerCompact(w) ==
    LET run == planner.runs[w]
        cnt == IF Len(run.results) < num_compactors THEN Len(run.results)
               ELSE num_compactors
        pri == run.results[run.i + 1]
        shard == planner.shards[pri.shard_id]
        last == run.i + 1 >= cnt
    IN  /\ run.pc = "compact"
        /\ run.i < cnt
        /\ IF shard.active
           THEN \E score \in 0 .. shard.score :
                    planner' = [planner EXCEPT
                        !.shards[pri.shard_id] =
                            [active |-> TRUE, compacting |-> TRUE, score |-> score],
                        !.runs[w].i = run.i + 1,
                        !.runs[w].pc = IF last THEN "scan" ELSE "compact",
                        !.runs[w].done =
                            Append(@, [shard_id |-> pri.shard_id, score |-> pri.score,
                                       active |-> shard.active,
                                       compacting |-> shard.compacting,
                                       now |-> shard.score])]
           ELSE planner' = [planner EXCEPT
                        !.shards[pri.shard_id].compacting = TRUE,
                        !.runs[w].i = run.i + 1,
                        !.runs[w].pc = IF last THEN "scan" ELSE "compact"]
        /\ UNCHANGED <<split_ctx, mem_tbls, l0_tbls, cfs, compacting, managed_safe_ts,
                       next_id, num_compactors, worker, listener, flushing, snap, dangling,
                       writes, updaters, filtered, iter, alloc, fanout, engine>>

\* Shard::set_active(false)
SetPassive(s) ==
    /\ planner.shards[s].active
    /\ planner' = [planner EXCEPT !.shards[s].active = FALSE]
    /\ UNCHANGED <<split_ctx, mem_tbls, l0_tbls, cfs, compacting, managed_safe_ts, next_id,
                   num_compactors, worker, listener, flushing, snap, dangling, writes,
                   updaters, filtered, iter, alloc, fanout, engine>>

NextPlanner ==
    \/ \E w \in Workers : PlannerScan(w)
    \/ \E w \in Workers : PlannerCompact(w)
    \/ \E s \in ShardIds : SetPassive(s)

SpecPlanner == InitPlanner /\ [][NextPlanner]_vars

\* C24: in each planner cycle only shards that are active, not already
\* compacting and have a score above 1 are compacted, they are taken in
\* non-increasing score order, and at most num_compactors of them are
\* compacted in the cycle.
C24_PerCycleScheduling ==
    \A w \in Workers :
        LET done == planner.runs[w].done
        IN  /\ Len(done) <= num_compactors
            /\ \A i \in DOMAIN done :
                   /\ done[i].active
                   /\ ~done[i].compacting
                   /\ done[i].now > 1
            /\ \A i, j \in DOMAIN done : i < j => done[i].score >= done[j].score

\* every SSTable the shard holds: the tables of the levels and the per-CF
\* tables of the L0 blobs
AllTables ==
    UNION { SeqToSet(cfs[cf][l].tables) : cf \in CFS, l \in 1 .. CF_LEVELS }
    \cup { L0GetCF(l0_tbls[i], cf) :
             <<i, cf>> \in { x \in (DOMAIN l0_tbls) \X CFS : L0HasCF(l0_tbls[x[1]], x[2]) } }

\* C25: SSTable.get(key, version) returns the entry of key with the greatest
\* version <= version the table stores, and an empty value when the table
\* does not hold the key or holds only versions above version (version 0
\* included); so a key stored once at version V is returned by get(key, V) and
\* a key not in the table reads empty.
C25_VersionedGet ==
    \A t \in AllTables : \A key \in Keys : \A v \in ReadVersions \cup {0} :
        SSTableGet(t, key, v) = NewestAtMost(t.ents, key, v)

\* a table holds two versions of a key and the get of the older one passes
\* over the newer one
C25_Witness ==
    \E t \in AllTables : \E key \in Keys :
        /\ Cardinality(ValsOfKey(t.ents, key)) >= 2
        /\ SSTableGet(t, key, 1).version = 1
        /\ SSTableGet(t, key, U64_MAX).version = MaxVer

\* C26: the LN executor terminates: whatever top and bottom tables it is
\* given, compact_tables reaches the end of its merge iterator and returns,
\* so no worker stays inside its compact call for ever.
C26_ExecutorTerminates ==
    /\ \A w \in Workers : worker[w].pc # "hung"
    /\ \A w \in Workers :
           (PickedLN(w) /\ IsMerge(AttemptOf(w))) => AttemptOf(w).result # "hang"

\* C27: no version group is split: in the output of the L0 fan-out and of the
\* LN merge all emitted versions of a key are in one output table, so no two
\* output tables of a CF hold the same key.
C27_NoGroupSplit ==
    \A k \in DOMAIN listener :
        LET creates == listener[k].comp.table_creates
        IN  \A i, j \in DOMAIN creates :
                (i < j /\ creates[i].cf = creates[j].cf)
                    => KeysOf(creates[i].ents) \cap KeysOf(creates[j].ents) = {}

\* the output tables of a change-set that hold entry e of CF cf
Holding(comp, cf, e) ==
    { i \in DOMAIN comp.table_creates :
        comp.table_creates[i].cf = cf /\ e \in comp.table_creates[i].ents }

\* C28: versions above safe_ts survive: for every CF and both executors a
\* compaction ends with a change-set in which each entry of its top and
\* bottom inputs whose version is > safe_ts appears, unchanged, in exactly one
\* output table.
C28_AboveSafeTsSurvive ==
    \A w \in Workers :
        (PickedAny(w) /\ AttemptOf(w).req # NoRequest) =>
            LET a == AttemptOf(w)
            IN  \A cf \in RequestCFs(a.req) : \A e \in InputEnts(a.req, cf) :
                    e.val.version > a.req.safe_ts =>
                        /\ a.result = "ok"
                        /\ Cardinality(Holding(a.comp, cf, e)) = 1

\* the greatest of the biggest keys of some tables
MaxBiggest(tbls) ==
    CHOOSE k \in { biggest(tbls[i]) : i \in DOMAIN tbls } :
        \A i \in DOMAIN tbls : KeyLeq(biggest(tbls[i]), k)

\* some table of a level deeper than req.level + 1 of the CF has a key range
\* that intersects [smallest of the first top table, biggest of all top tables]
DeeperOverlap(req) ==
    LET tops == TopTables(req)
        lo == smallest(tops[1])
        hi == MaxBiggest(tops)
    IN  \E l \in (req.level + 2) .. CF_LEVELS :
            \E i \in DOMAIN cfs[req.cf][l].tables :
                LET t == cfs[req.cf][l].tables[i]
                IN  KeyLeq(lo, biggest(t)) /\ KeyLeq(smallest(t), hi)

\* C29: for every LN compaction the planner builds, has_overlap is true
\* exactly when some table in a level deeper than L + 1 of the same CF has a
\* key range that intersects [smallest key of the first top table, biggest
\* key over all top tables]; also with several top tables and with an empty
\* bottom set.
C29_HasOverlap ==
    \A w \in Workers :
        (PickedLN(w) /\ AttemptOf(w).req # NoRequest) =>
            (AttemptOf(w).req.overlap <=> DeeperOverlap(AttemptOf(w).req))

\* ------------------------------------------------ fill_table on wider levels
\* A layout gives every key of 1 .. MaxFillKey the table of the level it is
\* in (0: in none); the tables of a level are numbered in key order, so the
\* level is sorted and its tables are disjoint.
Layouts ==
    { g \in [1 .. MaxFillKey -> 0 .. MaxFillKey] :
        /\ \A k1, k2 \in 1 .. MaxFillKey : (k1 < k2 /\ g[k1] > 0 /\ g[k2] > 0) => g[k1] <= g[k2]
        /\ \A i \in 1 .. MaxFillKey :
               (\E k \in 1 .. MaxFillKey : g[k] = i)
                   => \A j \in 1 .. i : \E k \in 1 .. MaxFillKey : g[k] = j }

LayoutTables(g, level) ==
    LET m == Cardinality({ g[k] : k \in 1 .. MaxFillKey } \ {0})
    IN  [i \in 1 .. m |->
            SSTable(10 * level + i,
                    { Entry(<<k>>, PutValue(1)) : k \in { x \in 1 .. MaxFillKey : g[x] = i } })]

\* a shard loaded with levels 1 and 2 of one CF
InitFill ==
    \E cf0 \in CFS : \E g1, g2 \in Layouts :
        /\ split_ctx = NewSplitContext(<<>>)
        /\ mem_tbls = <<EmptyMemTable>>
        /\ l0_tbls = <<>>
        /\ cfs = [cf \in CFS |->
                    IF cf = cf0
                    THEN [l \in 1 .. CF_LEVELS |->
                            IF l = 1 THEN BuildLevel(1, LayoutTables(g1, 1))
                            ELSE IF l = 2 THEN BuildLevel(2, LayoutTables(g2, 2))
                            ELSE NewLevelHandler(l)]
                    ELSE NewShardCF]
        /\ compacting = FALSE
        /\ managed_safe_ts = 0
        /\ next_id = FirstFreeId
        /\ num_compactors = NumCompactors
        /\ worker = [w \in 1 .. MaxCompactors |-> IdleWorker]
        /\ listener = <<>>
        /\ flushing = FALSE
        /\ snap = NoSnap
        /\ dangling = {}
        /\ writes = 0
        /\ updaters = NoUpdaters
        /\ filtered = NoFilterCall
        /\ iter = NoIterator
        /\ planner = NoPlanner
        /\ alloc = NoAlloc
        /\ fanout = NoFanOut
        /\ engine = NoEngine

SpecFill == InitFill /\ [][NextLoaded]_vars

\* the tables of a level are sorted and their key ranges are disjoint
SortedDisjoint(lh) ==
    \A i \in 1 .. Len(lh.tables) - 1 :
        KeyLess(biggest(lh.tables[i]), smallest(lh.tables[i + 1]))

\* the CompactDef fill_table leaves for level l of a CF
FilledDef(cf, l) == fill_table(NewCompactDef(cf, l), cfs[cf][l], cfs[cf][l + 1])

\* the tables of next whose range intersects [top.first.smallest, top.last.biggest]
Intersecting(top, next) ==
    { i \in DOMAIN next :
        /\ KeyLeq(smallest(top[1]), biggest(next[i]))
        /\ KeyLeq(smallest(next[i]), biggest(top[Len(top)])) }

\* C30: on sorted, disjoint levels fill_table slices the next level within
\* its bounds, and whenever it returns true, top is a non-empty contiguous
\* run of tables of this level and bot is exactly the run of tables of the
\* next level whose [smallest, biggest] intersects [top.first.smallest,
\* top.last.biggest].
C30_BottomSetComplete ==
    \A cf \in CFS : \A l \in 1 .. CF_LEVELS - 1 :
        (SortedDisjoint(cfs[cf][l]) /\ SortedDisjoint(cfs[cf][l + 1])) =>
            LET cd == FilledDef(cf, l)
                this == cfs[cf][l].tables
                next == cfs[cf][l + 1].tables
            IN  /\ ~cd.panic
                /\ cd.ok =>
                       /\ Len(cd.top) > 0
                       /\ \E i \in DOMAIN this : cd.top = SubSeq(this, i, i + Len(cd.top) - 1)
                       /\ \E i \in 1 .. Len(next) + 1 :
                              /\ cd.bot = SubSeq(next, i, i + Len(cd.bot) - 1)
                              /\ Intersecting(cd.top, next) = i .. (i + Len(cd.bot) - 1)

\* a worker has picked a level for which fill_table takes two top tables and
\* a bottom table and leaves a table of the next level out
C30_Witness ==
    \E w \in Workers :
        /\ PickedLN(w)
        /\ worker[w].pri.level < CF_LEVELS
        /\ LET cd == FilledDef(worker[w].pri.cf, worker[w].pri.level)
           IN  /\ cd.ok
               /\ Len(cd.top) >= 2
               /\ Len(cd.bot) >= 1
               /\ Len(cd.bot) < Len(cfs[cd.cf][cd.level + 1].tables)

\* --------------------------------------------- the expansion of the top run
\* the sizes of the runs this[tl .. tr) and next[bl .. br) (0-based bounds)
RunRatio(this, next, tl, tr, bl, br) ==
    calc_ratio(sume_tbl_size(this, tl, tr), sume_tbl_size(next, bl, br))

\* the index (0-based) of the first table of this whose ratio against its
\* bottom run is the greatest
BestTop(this, next) ==
    LET ratio(i) == LET r == get_tables_in_range(next, smallest(this[i + 1]), biggest(this[i + 1]))
                    IN  RunRatio(this, next, i, i + 1, r.left, r.right)
    IN  CHOOSE i \in 0 .. Len(this) - 1 :
            /\ \A j \in 0 .. Len(this) - 1 : ~RatioLess(ratio(i), ratio(j))
            /\ \A j \in 0 .. i - 1 : RatioLess(ratio(j), ratio(i))

\* the run <<tl, tr, bl, br>> grown to the left while no table of next is
\* skipped and the ratio of the grown run is not lower than cand
RECURSIVE GrowLeft(_, _, _, _)
GrowLeft(this, next, run, cand) ==
    IF run.tl = 0 THEN run
    ELSE LET t == this[run.tl]
             r == get_tables_in_range(next, smallest(t), biggest(t))
         IN  IF r.right < run.bl
                  \/ RatioLess(RunRatio(this, next, run.tl - 1, run.tr, r.left, run.br), cand)
             THEN run
             ELSE GrowLeft(this, next, [run EXCEPT !.tl = @ - 1, !.bl = r.left], cand)

RECURSIVE GrowRight(_, _, _, _)
GrowRight(this, next, run, cand) ==
    IF run.tr = Len(this) THEN run
    ELSE LET t == this[run.tr + 1]
             r == get_tables_in_range(next, smallest(t), biggest(t))
         IN  IF r.left > run.br
                  \/ RatioLess(RunRatio(this, next, run.tl, run.tr + 1, run.bl, r.right), cand)
             THEN run
             ELSE GrowRight(this, next, [run EXCEPT !.tr = @ + 1, !.br = r.right], cand)

\* the run the expansion rule gives: the best table, grown left, then right
ExpandedRun(this, next) ==
    LET i == BestTop(this, next)
        r == get_tables_in_range(next, smallest(this[i + 1]), biggest(this[i + 1]))
        run0 == [tl |-> i, tr |-> i + 1, bl |-> r.left, br |-> r.right]
        cand == RunRatio(this, next, i, i + 1, r.left, r.right)
    IN  GrowRight(this, next, GrowLeft(this, next, run0, cand), cand)

\* C31: whenever fill_table returns true on sorted, disjoint levels, its top
\* and bottom runs are those of the expansion rule: the table with the
\* greatest top/bottom ratio, extended by the left neighbours and then by the
\* right neighbours, each as long as no table of the next level is skipped
\* and the ratio of the extended selection is not lower than the candidate
\* ratio.
C31_ExpansionRule ==
    \A cf \in CFS : \A l \in 1 .. CF_LEVELS - 1 :
        (SortedDisjoint(cfs[cf][l]) /\ SortedDisjoint(cfs[cf][l + 1])) =>
            LET cd == FilledDef(cf, l)
                this == cfs[cf][l].tables
                next == cfs[cf][l + 1].tables
            IN  cd.ok =>
                    LET run == ExpandedRun(this, next)
                    IN  /\ cd.top_left_idx = run.tl
                        /\ cd.top_right_idx = run.tr
                        /\ cd.bot_left_idx = run.bl
                        /\ cd.bot_right_idx = run.br

\* C32: whenever fill_table returns true, top_size is the sum of the sizes of
\* the tables of top and bot_size the sum of the sizes of the tables of bot,
\* whatever steps to the left and to the right the expansion took.
C32_SizeBookkeeping ==
    \A cf \in CFS : \A l \in 1 .. CF_LEVELS - 1 :
        LET cd == FilledDef(cf, l)
        IN  cd.ok => /\ cd.top_size = SumSizes(cd.top)
                     /\ cd.bot_size = SumSizes(cd.bot)

\* ------------------------------------------------------------ id accounting
\* The executors seen through sizes alone: the merged input is alloc.left
\* entries of distinct keys, each of encoded size alloc.kv_size, none of them
\* discarded (every version is above safe_ts); the size of a table is the
\* sum of the sizes of its entries.

\* set_alloc_ids_for_request: id_cnt
id_cnt(total_size, max_table_size) == (total_size \div max_table_size) + IdSlack

\* the inner loop of compact_tables: the entries left once one table is built
RECURSIVE TableOfCompactTables(_, _, _, _, _)
TableOfCompactTables(left, estimated_size, last_key, max_table_size, kv_size) ==
    IF left = 0 THEN 0
    ELSE IF last_key /\ estimated_size + kv_size > max_table_size THEN left
    ELSE TableOfCompactTables(left - 1, estimated_size + kv_size, TRUE,
                              max_table_size, kv_size)

\* the outer loop of compact_tables: assert!(alloc_id < req.end_id), then one
\* table with the id alloc_id
RECURSIVE IdsOfCompactTables(_, _, _, _, _)
IdsOfCompactTables(left, alloc_id, end_id, max_table_size, kv_size) ==
    IF left = 0 THEN [panic |-> FALSE, made |-> <<>>]
    ELSE IF ~(alloc_id < end_id) THEN [panic |-> TRUE, made |-> <<>>]
    ELSE LET more == IdsOfCompactTables(
                         TableOfCompactTables(left, 0, FALSE, max_table_size, kv_size),
                         alloc_id + 1, end_id, max_table_size, kv_size)
         IN  [panic |-> more.panic, made |-> <<alloc_id>> \o more.made]

\* the loop of build_one: it breaks once estimated_size > max_table_size
RECURSIVE TableOfBuildOne(_, _, _, _)
TableOfBuildOne(left, estimated_size, max_table_size, kv_size) ==
    IF left = 0 \/ estimated_size > max_table_size
    THEN [left |-> left, estimated_size |-> estimated_size]
    ELSE TableOfBuildOne(left - 1, estimated_size + kv_size, max_table_size, kv_size)

\* the loop of compact_l0 over one CF: build_one(iter, id) until no data
RECURSIVE IdsOfCompactL0CF(_, _, _, _)
IdsOfCompactL0CF(left, id, max_table_size, kv_size) ==
    LET r == TableOfBuildOne(left, 0, max_table_size, kv_size)
    IN  IF r.estimated_size = 0 THEN <<>>
        ELSE <<id>> \o IdsOfCompactL0CF(r.left, id + 1, max_table_size, kv_size)

\* compact_l0: the CFs in order, id is carried from one to the next
RECURSIVE IdsOfCompactL0(_, _, _, _)
IdsOfCompactL0(lefts, id, max_table_size, kv_size) ==
    IF lefts = <<>> THEN <<>>
    ELSE LET made == IdsOfCompactL0CF(Head(lefts), id, max_table_size, kv_size)
         IN  made \o IdsOfCompactL0(Tail(lefts), id + Len(made), max_table_size, kv_size)

RECURSIVE SumSeq(_)
SumSeq(s) == IF s = <<>> THEN 0 ELSE Head(s) + SumSeq(Tail(s))

\* the inputs: an LN merge of up to MaxIdEntries entries, or an L0 compaction
\* with them in WRITE_CF and at most one entry in each other CF
InitAlloc ==
    /\ split_ctx = NewSplitContext(<<>>)
    /\ mem_tbls = <<EmptyMemTable>>
    /\ l0_tbls = <<>>
    /\ cfs = [cf \in CFS |-> NewShardCF]
    /\ compacting = FALSE
    /\ managed_safe_ts = 0
    /\ next_id = 1
    /\ num_compactors = NumCompactors
    /\ worker = [w \in 1 .. MaxCompactors |-> IdleWorker]
    /\ listener = <<>>
    /\ flushing = FALSE
    /\ snap = NoSnap
    /\ dangling = {}
    /\ writes = 0
    /\ updaters = NoUpdaters
    /\ filtered = NoFilterCall
    /\ iter = NoIterator
    /\ planner = NoPlanner
    /\ \E n \in 0 .. MaxIdEntries : \E kv \in 1 .. MaxKvSize :
       \E max \in 1 .. MaxKvSize + 1 : \E exe \in {"l0", "ln"} :
       \E others \in [1 .. NUM_CFS - 1 -> 0 .. 1] :
           LET left == IF exe = "ln" THEN <<n>> ELSE <<n>> \o others
           IN  alloc = [pc |-> "new", exe |-> exe, max_table_size |-> max, kv_size |-> kv,
                        left |-> left,
                        total_size |-> kv * SumSeq(left),
                        start_id |-> 0, end_id |-> 0, made |-> <<>>]
    /\ fanout = NoFanOut
    /\ engine = NoEngine

\* build_compact_l0_request / build_compact_ln_request: the ids
\* next_id .. next_id + id_cnt - 1 are taken from the allocator
SetAllocIds ==
    /\ alloc.pc = "new"
    /\ alloc' = [alloc EXCEPT !.pc = "alloc", !.start_id = next_id,
                     !.end_id = next_id + id_cnt(alloc.total_size, alloc.max_table_size)]
    /\ next_id' = next_id + id_cnt(alloc.total_size, alloc.max_table_size)
    /\ UNCHANGED <<split_ctx, mem_tbls, l0_tbls, cfs, compacting, managed_safe_ts,
                   num_compactors, worker, listener, flushing, snap, dangling, writes,
                   updaters, filtered, iter, planner, fanout, engine>>

\* CompactionClient::compact: compact_l0 or compact_tables on the request
CompactWithIds ==
    /\ alloc.pc = "alloc"
    /\ alloc' =
         IF alloc.exe = "l0"
         THEN [alloc EXCEPT !.pc = "done",
                   !.made = IdsOfCompactL0(alloc.left, alloc.start_id,
                                           alloc.max_table_size, alloc.kv_size)]
         ELSE LET r == IdsOfCompactTables(alloc.left[1], alloc.start_id, alloc.end_id,
                                          alloc.max_table_size, alloc.kv_size)
              IN  [alloc EXCEPT !.pc = IF r.panic THEN "panic" ELSE "done",
                                !.made = r.made]
    /\ UNCHANGED <<split_ctx, mem_tbls, l0_tbls, cfs, compacting, managed_safe_ts, next_id,
                   num_compactors, worker, listener, flushing, snap, dangling, writes,
                   updaters, filtered, iter, planner, fanout, engine>>

NextAlloc == SetAllocIds \/ CompactWithIds

SpecAlloc == InitAlloc /\ [][NextAlloc]_vars

\* total_size / max_table_size rounded up
CeilDiv(a, b) == (a + b - 1) \div b

\* C33: the ids allocated for a request are the range [start_id, end_id) of
\* ceil(total_input_size / max_table_size) + 16 ids; the executor never
\* fails the assertion alloc_id < end_id, and the ids of the tables it builds
\* are start_id, start_id + 1, ... in this order, all below end_id.
C33_IdsSuffice ==
    alloc.pc \in {"alloc", "done", "panic"} =>
        /\ alloc.end_id - alloc.start_id
               = CeilDiv(alloc.total_size, alloc.max_table_size) + IdSlack
        /\ alloc.pc # "panic"
        /\ \A i \in DOMAIN alloc.made :
               /\ alloc.made[i] = alloc.start_id + i - 1
               /\ alloc.made[i] < alloc.end_id

\* ------------------------------------------------------- DFS create fan-out
\* The tail of compact_l0 and compact_tables: table i is built and its create
\* is spawned on the pool of the DFS; the task sends Ok(tbl_create) or
\* Err(err) on a sync_channel of capacity end_id - start_id; after the last
\* table the executor receives cnt results, `rx.recv().unwrap()?`.
FanTasks == 1 .. MaxFanOut

InitFanOut ==
    /\ split_ctx = NewSplitContext(<<>>)
    /\ mem_tbls = <<EmptyMemTable>>
    /\ l0_tbls = <<>>
    /\ cfs = [cf \in CFS |-> NewShardCF]
    /\ compacting = FALSE
    /\ managed_safe_ts = 0
    /\ next_id = 1
    /\ num_compactors = NumCompactors
    /\ worker = [w \in 1 .. MaxCompactors |-> IdleWorker]
    /\ listener = <<>>
    /\ flushing = FALSE
    /\ snap = NoSnap
    /\ dangling = {}
    /\ writes = 0
    /\ updaters = NoUpdaters
    /\ filtered = NoFilterCall
    /\ iter = NoIterator
    /\ planner = NoPlanner
    /\ alloc = NoAlloc
    /\ \E n \in 0 .. MaxFanOut : \E fails \in SUBSET (1 .. n) :
           fanout = [pc |-> "build", n |-> n, fails |-> fails, cap |-> id_cnt(0, MaxTableSize),
                     launched |-> 0, tasks |-> [i \in 1 .. n |-> "none"],
                     chan |-> <<>>, rx |-> TRUE, got |-> <<>>]
    /\ engine = NoEngine

\* one round of the building loop: the table is built, its create task is
\* spawned and the id moves on; after the last table the executor collects
SpawnCreate ==
    /\ fanout.pc = "build"
    /\ IF fanout.launched < fanout.n
       THEN fanout' = [fanout EXCEPT !.launched = @ + 1,
                                      !.tasks[fanout.launched + 1] = "running"]
       ELSE fanout' = [fanout EXCEPT
                         !.pc = IF fanout.n = 0 THEN "ok" ELSE "collect",
                         !.rx = fanout.n # 0]
    /\ UNCHANGED <<split_ctx, mem_tbls, l0_tbls, cfs, compacting, managed_safe_ts, next_id,
                   num_compactors, worker, listener, flushing, snap, dangling, writes,
                   updaters, filtered, iter, planner, alloc, engine>>

\* the task of table i: afs.create(..).await, then atx.send(..).unwrap();
\* send waits while the channel is full and is an error, so a panic of the
\* task, once the receiver is dropped
TaskSend(i) ==
    /\ i \in DOMAIN fanout.tasks
    /\ fanout.tasks[i] = "running"
    /\ IF ~fanout.rx
       THEN fanout' = [fanout EXCEPT !.tasks[i] = "panicked"]
       ELSE /\ Len(fanout.chan) < fanout.cap
            /\ fanout' = [fanout EXCEPT
                            !.tasks[i] = "sent",
                            !.chan = Append(@, [id |-> i, ok |-> i \notin fanout.fails])]
    /\ UNCHANGED <<split_ctx, mem_tbls, l0_tbls, cfs, compacting, managed_safe_ts, next_id,
                   num_compactors, worker, listener, flushing, snap, dangling, writes,
                   updaters, filtered, iter, planner, alloc, engine>>

\* one round of `for _ in 0..cnt`: rx.recv().unwrap()? returns the error of
\* the first Err received, and rx is dropped with what is still in it
RecvCreate ==
    /\ fanout.pc = "collect"
    /\ Len(fanout.chan) > 0
    /\ LET r == Head(fanout.chan)
       IN  IF ~r.ok
           THEN fanout' = [fanout EXCEPT !.pc = "err", !.rx = FALSE, !.chan = <<>>]
           ELSE fanout' = [fanout EXCEPT
                             !.got = Append(@, r.id),
                             !.chan = Tail(@),
                             !.pc = IF Len(fanout.got) + 1 = fanout.launched
                                    THEN "ok" ELSE "collect",
                             !.rx = Len(fanout.got) + 1 # fanout.launched]
    /\ UNCHANGED <<split_ctx, mem_tbls, l0_tbls, cfs, compacting, managed_safe_ts, next_id,
                   num_compactors, worker, listener, flushing, snap, dangling, writes,
                   updaters, filtered, iter, planner, alloc, engine>>

NextFanOut == SpawnCreate \/ (\E i \in FanTasks : TaskSend(i)) \/ RecvCreate

SpecFanOut == InitFanOut /\ [][NextFanOut]_vars

\* C34: an executor that returns Ok has received one result from each of the
\* N tasks it launched and returns exactly their N TableCreates; one that
\* returns an error does so only after every task it launched has delivered
\* its result, and no task ever sends on a channel whose receiver is gone.
C34_FanOutCollection ==
    /\ fanout.pc = "ok" =>
           /\ Len(fanout.got) = fanout.n
           /\ SeqToSet(fanout.got) = 1 .. fanout.n
    /\ fanout.pc = "err" => \A i \in DOMAIN fanout.tasks : fanout.tasks[i] = "sent"
    /\ \A i \in DOMAIN fanout.tasks : fanout.tasks[i] # "panicked"

\* ------------------------------------------------- a level at its capacity
\* level l of one CF holds n tables of one entry each, n from the capacity
\* base_size * 10^(l - 1) of the level to MaxDeepExtra above it
DeepTables(n) == [i \in 1 .. n |-> SSTable(i, {Entry(<<i>>, PutValue(1))})]

InitDeep ==
    \E cf0 \in CFS : \E l0 \in 1 .. CF_LEVELS : \E extra \in 0 .. MaxDeepExtra :
        LET n == BaseSize * Pow10(l0 - 1) + extra
        IN  /\ split_ctx = NewSplitContext(<<>>)
            /\ mem_tbls = <<EmptyMemTable>>
            /\ l0_tbls = <<>>
            /\ cfs = [cf \in CFS |->
                        [l \in 1 .. CF_LEVELS |->
                            IF cf = cf0 /\ l = l0
                            THEN LevelHandler(l, DeepTables(n), SumSizes(DeepTables(n)))
                            ELSE NewLevelHandler(l)]]
            /\ compacting = FALSE
            /\ managed_safe_ts = 0
            /\ next_id = n + 1
            /\ num_compactors = NumCompactors
            /\ worker = [w \in 1 .. MaxCompactors |-> IdleWorker]
            /\ listener = <<>>
            /\ flushing = FALSE
            /\ snap = NoSnap
            /\ dangling = {}
            /\ writes = 0
            /\ updaters = NoUpdaters
            /\ filtered = NoFilterCall
            /\ iter = NoIterator
            /\ planner = NoPlanner
            /\ alloc = NoAlloc
            /\ fanout = NoFanOut
            /\ engine = NoEngine

SpecDeep == InitDeep /\ [][NextLoaded]_vars

\* C35: a priority that names a CF names a level of it that has a next
\* level, 1 <= level < max_levels, and a worker that has picked such a
\* priority does not fail for want of the next level.
C35_PickedLevelHasNext ==
    /\ LET pri == get_compaction_priority(l0_tbls, cfs)
       IN  pri.cf >= 0 => (1 <= pri.level /\ pri.level < Len(cfs[pri.cf]))
    /\ \A w \in Workers :
           PickedLN(w) => (1 <= worker[w].pri.level
                           /\ worker[w].pri.level < Len(cfs[worker[w].pri.cf]))

\* C36: every TableCreate of a change-set handed to the listener names the
\* level below the inputs, comp.level + 1 (level 1 for an L0 compaction),
\* and a CF of the shard, for an LN compaction the CF of the request.
C36_OutputLevel ==
    \A k \in DOMAIN listener :
        LET comp == listener[k].comp
        IN  \A i \in DOMAIN comp.table_creates :
                /\ comp.table_creates[i].level = comp.level + 1
                /\ comp.table_creates[i].cf \in CFS
                /\ comp.level > 0 => comp.table_creates[i].cf = comp.cf

\* C37: the L0 list is ordered newest-first, and the change-set of an L0
\* compaction that is next to be installed names as its tops exactly the
\* last n tables of the current list, n not above the length of the list:
\* atomic_remove_l0_tables(n) removes the captured tables and keeps every
\* table added since.
C37_L0ListUnderFlush ==
    /\ \A i, j \in DOMAIN l0_tbls : i < j => l0_tbls[i].id > l0_tbls[j].id
    /\ (Len(listener) > 0 /\ Head(listener).comp.level = 0) =>
           LET n == Len(Head(listener).comp.top_deletes)
           IN  /\ n <= Len(l0_tbls)
               /\ Ids(SubSeq(l0_tbls, Len(l0_tbls) - n + 1, Len(l0_tbls)))
                      = Head(listener).comp.top_deletes

\* --------------------------------------- add and remove called in any order
\* Shard::atomic_add_mem_table(CFTable::new()) at any time
AtomicAddMemTable ==
    /\ Len(mem_tbls) < MaxMemTables
    /\ mem_tbls' = atomic_add_mem_table(mem_tbls, EmptyMemTable)
    /\ snap' = [snap EXCEPT !.head_alias = FALSE]
    /\ UNCHANGED <<split_ctx, l0_tbls, cfs, compacting, managed_safe_ts, next_id,
                   num_compactors, worker, listener, flushing, dangling, writes,
                   updaters, filtered, iter, planner, alloc, fanout, engine>>

\* Shard::atomic_remove_mem_table() at any time
AtomicRemoveMemTable ==
    /\ mem_tbls' = atomic_remove_mem_table(mem_tbls)
    /\ dangling' = dangling \cup Released(MemRefs(mem_tbls), MemRefs(mem_tbls'))
    /\ UNCHANGED <<split_ctx, l0_tbls, cfs, compacting, managed_safe_ts, next_id,
                   num_compactors, worker, listener, flushing, snap, writes,
                   updaters, filtered, iter, planner, alloc, fanout, engine>>

NextMemList ==
    \/ \E key \in Keys, ver \in Versions :
           \E val \in WriteValues(ver) : Write(WRITE_CF, key, val)
    \/ AtomicAddMemTable
    \/ AtomicRemoveMemTable

SpecMemList == Init /\ [][NextMemList]_vars

\* C38: the memtable list is never empty; a step that makes it longer puts
\* one table at index 0 and leaves the previous tables behind it in their
\* order, a step that makes it shorter drops the last table only, and a step
\* that is not a write leaves a list of one table as it is.
C38_MemTableList ==
    [][/\ Len(mem_tbls') >= 1
       /\ Len(mem_tbls') > Len(mem_tbls) => mem_tbls' = <<mem_tbls'[1]>> \o mem_tbls
       /\ Len(mem_tbls') < Len(mem_tbls) =>
              mem_tbls' = SubSeq(mem_tbls, 1, Len(mem_tbls) - 1)
       /\ (Len(mem_tbls') = Len(mem_tbls) /\ writes' = writes) => mem_tbls' = mem_tbls
       /\ Len(mem_tbls') = Len(mem_tbls) => Tail(mem_tbls') = Tail(mem_tbls)]_vars

\* a written memtable was pushed back by an add and then removed: a write
\* went in, and the one table left is empty
C38_Witness ==
    /\ writes > 0
    /\ Len(mem_tbls) = 1
    /\ MemTableIsEmpty(mem_tbls[1])

\* ------------------------------------------------------------------- ingest
\* The snapshot of an ingested shard lists L0 blobs <<id, version>> and
\* TableCreates; dfs.open(id) fails for the ids in bad.
\* l0_tbls.sort_by(|a, b| b.version().cmp(&a.version())): a stable sort
RECURSIVE SortL0ByVersionDesc(_)
SortL0ByVersionDesc(tbls) ==
    IF tbls = <<>> THEN <<>>
    ELSE LET i == CHOOSE i \in 1 .. Len(tbls) :
                      \A j \in 1 .. Len(tbls) :
                          \/ tbls[i].version > tbls[j].version
                          \/ (tbls[i].version = tbls[j].version /\ i <= j)
         IN  <<tbls[i]>> \o SortL0ByVersionDesc(
                 [j \in 1 .. Len(tbls) - 1 |-> IF j < i THEN tbls[j] ELSE tbls[j + 1]])

\* a loop that leaves out the blobs that do not open
OpenL0sThatOpen(l0_creates, bad) ==
    LET Opens(c) == c.id \notin bad
    IN  [err |-> FALSE, tbls |-> SelectSeq(l0_creates, Opens)]

\* the first loop of create_level_tree_level_handlers: every L0 blob is
\* opened in turn, the first failure is returned
OpenL0s(l0_creates, bad) ==
    IF \E i \in DOMAIN l0_creates : l0_creates[i].id \in bad
    THEN [err |-> TRUE, tbls |-> <<>>]
    ELSE [err |-> FALSE, tbls |-> l0_creates]

\* the loop over snap.get_table_creates(): the table is opened, its size is
\* added to the total_size of levels[level - 1] and it is pushed to the level
RECURSIVE OpenTables(_, _, _)
OpenTables(table_creates, bad, scfs) ==
    IF table_creates = <<>> THEN [err |-> FALSE, scfs |-> scfs]
    ELSE LET tc == Head(table_creates)
             tbl == SSTable(tc.id, tc.ents)
         IN  IF tc.id \in bad THEN [err |-> TRUE, scfs |-> scfs]
             ELSE OpenTables(Tail(table_creates), bad,
                      [scfs EXCEPT ![tc.cf][tc.level] =
                          LevelHandler(tc.level, Append(@.tables, tbl),
                                       @.total_size + size(tbl))])

\* create_level_tree_level_handlers
create_level_tree_level_handlers(l0_creates, table_creates, bad) ==
    LET l0 == OpenL0s(l0_creates, bad)
        opened == OpenTables(table_creates, bad, [cf \in CFS |-> NewShardCF])
    IN  IF l0.err \/ opened.err THEN [err |-> TRUE, l0s |-> <<>>, scfs |-> <<>>]
        ELSE [err |-> FALSE,
              l0s |-> SortL0ByVersionDesc(l0.tbls),
              scfs |-> [cf \in CFS |->
                          [l \in 1 .. CF_LEVELS |->
                              LevelHandler(l, SortBySmallest(opened.scfs[cf][l].tables),
                                           opened.scfs[cf][l].total_size)]]]

\* the shard map with the entry of id replaced or added
InsertShard(shards, id, shard) ==
    LET OtherId(e) == e.id # id
    IN  Append(SelectSeq(shards, OtherId), [id |-> id, shard |-> shard])

\* the snapshots: up to MaxIngestL0 blobs and MaxIngestTables tables, each
\* table with one key in a level of a CF; the shard has any id of ShardIds
\* and the shard map is empty or holds a shard of the same or of another id
IngestL0s ==
    UNION { [1 .. n -> [id : {1}, version : 1 .. MaxIngestL0]] : n \in 0 .. MaxIngestL0 }

IngestTables ==
    UNION { [1 .. n -> { TableCreate(1, cf, l, {Entry(k, PutValue(1))}) :
                           cf \in {WRITE_CF, LOCK_CF}, l \in 1 .. 2, k \in Keys }] :
            n \in 0 .. MaxIngestTables }

\* the files are numbered as they are listed: L0 blobs first, then tables
Numbered(creates, from) == [i \in DOMAIN creates |-> [creates[i] EXCEPT !.id = from + i]]

InitIngest ==
    /\ split_ctx = NewSplitContext(<<>>)
    /\ mem_tbls = <<EmptyMemTable>>
    /\ l0_tbls = <<>>
    /\ cfs = [cf \in CFS |-> NewShardCF]
    /\ compacting = FALSE
    /\ managed_safe_ts = 0
    /\ next_id = 1
    /\ num_compactors = NumCompactors
    /\ worker = [w \in 1 .. MaxCompactors |-> IdleWorker]
    /\ listener = <<>>
    /\ flushing = FALSE
    /\ snap = NoSnap
    /\ dangling = {}
    /\ writes = 0
    /\ updaters = NoUpdaters
    /\ filtered = NoFilterCall
    /\ iter = NoIterator
    /\ planner = NoPlanner
    /\ alloc = NoAlloc
    /\ fanout = NoFanOut
    /\ \E id \in ShardIds : \E l0c \in IngestL0s : \E tcs \in IngestTables :
       \E bad \in SUBSET (1 .. (Len(l0c) + Len(tcs))) :
       \E old \in {<<>>} \cup { <<[id |-> s, shard |-> "old"]>> : s \in ShardIds } :
           engine = [pc |-> "ingest", id |-> id, l0_creates |-> Numbered(l0c, 0),
                     table_creates |-> Numbered(tcs, Len(l0c)), bad |-> bad,
                     shards |-> old, result |-> "none"]

\* Engine::ingest(tree)
Ingest ==
    /\ engine.pc = "ingest"
    /\ LET r == create_level_tree_level_handlers(engine.l0_creates, engine.table_creates,
                                                 engine.bad)
       IN  engine' =
             IF r.err THEN [engine EXCEPT !.pc = "done", !.result = "err"]
             ELSE [engine EXCEPT
                     !.pc = "done", !.result = "ok",
                     !.shards = InsertShard(@, engine.id,
                                            [l0_tbls |-> r.l0s, cfs |-> r.scfs])]
    /\ UNCHANGED <<split_ctx, mem_tbls, l0_tbls, cfs, compacting, managed_safe_ts, next_id,
                   num_compactors, worker, listener, flushing, snap, dangling, writes,
                   updaters, filtered, iter, planner, alloc, fanout>>

NextIngest == Ingest

SpecIngest == InitIngest /\ [][NextIngest]_vars

\* C39: when ingest has returned, either every file listed opened and the
\* shard map holds the shard with every L0 blob and every table listed, the
\* L0 list in descending order of version and every level sorted by smallest
\* with total_size the sum of the sizes of its tables; or some open failed,
\* ingest returned the error and the shard map is what it was.
C39_IngestAllOrNothing ==
    [][engine'.pc = "done" =>
        IF \E c \in SeqToSet(engine.l0_creates) \cup SeqToSet(engine.table_creates) :
               c.id \in engine.bad
        THEN /\ engine'.result = "err"
             /\ engine'.shards = engine.shards
        ELSE /\ engine'.result = "ok"
             /\ \E i \in DOMAIN engine'.shards :
                  LET e == engine'.shards[i]
                  IN  /\ e.id = engine.id
                      /\ \A j \in DOMAIN engine'.shards :
                             engine'.shards[j].id = engine.id => j = i
                      /\ \A j \in DOMAIN engine.shards :
                             engine.shards[j].id # engine.id
                                 => engine.shards[j] \in SeqToSet(engine'.shards)
                      /\ SeqToSet(e.shard.l0_tbls) = SeqToSet(engine.l0_creates)
                      /\ Len(e.shard.l0_tbls) = Len(engine.l0_creates)
                      /\ \A a, b \in DOMAIN e.shard.l0_tbls :
                             a < b => e.shard.l0_tbls[a].version >= e.shard.l0_tbls[b].version
                      /\ \A cf \in CFS : \A l \in 1 .. CF_LEVELS :
                           LET lh == e.shard.cfs[cf][l]
                           IN  /\ Len(lh.tables)
                                    = Cardinality({ x \in SeqToSet(engine.table_creates) :
                                                      x.cf = cf /\ x.level = l })
                               /\ SeqToSet(Ids(lh.tables))
                                    = { c.id : c \in { x \in SeqToSet(engine.table_creates) :
                                                         x.cf = cf /\ x.level = l } }
                               /\ \A a, b \in DOMAIN lh.tables :
                                      a < b => KeyLeq(smallest(lh.tables[a]),
                                                      smallest(lh.tables[b]))
                               /\ lh.total_size = SumSizes(lh.tables)]_vars

\* ingest has published a shard with two L0 blobs listed oldest first and two
\* tables of one level listed in descending order of their keys
C39_Witness ==
    /\ engine.result = "ok"
    /\ Len(engine.l0_creates) = 2
    /\ engine.l0_creates[1].version < engine.l0_creates[2].version
    /\ \E i, j \in DOMAIN engine.table_creates :
           /\ i < j
           /\ engine.table_creates[i].cf = engine.table_creates[j].cf
           /\ engine.table_creates[i].level = engine.table_creates[j].level
           /\ KeyLess(smallest(SSTable(0, engine.table_creates[j].ents)),
                      smallest(SSTable(0, engine.table_creates[i].ents)))

====
